---- MODULE Spec2Model ----
(***************************************************************************)
(* OpenCodeOrchestra: session depth resolver (session/depth.ts), the       *)
(* depth-aware client wrapper (plugin/client-wrapper.ts) and the task      *)
(* dispatcher (tool/task.ts), modelled as state machines over the session  *)
(* store.                                                                  *)
(***************************************************************************)
EXTENDS Integers, Sequences, FiniteSets, TLC

\* ------------------------------------------------------------------------
\* Program constant and model bounds
\* ------------------------------------------------------------------------

\* depth.ts: const MAX_DEPTH = 100
MAX_DEPTH == 100

\* Session identifiers are 1..NumIds; ids above MaxSmall form a linear
\* chain (i -> i-1), ids 1..MaxSmall hold arbitrary store contents.
NumIds == 103
MaxSmall == 2
\* calculateDepth is started from ids 1..MaxSmall+ShortTail and from the
\* TopStarts highest ids (chains around the hop ceiling).
ShortTail == 2
TopStarts == 4
\* store mutations allowed while one walk is in progress
MaxMutations == 2
\* sessions the dispatcher model lets exist (the root session included)
MaxSessions == 3
\* hops the local depth walk of the dispatcher is followed for: more than
\* there are sessions
LocalCap == NumIds + 2

\* undefined parentID / absent session identifier
None == 0
\* session without an assigned agent (created outside the task tool)
NoAgent == "none"

Ids == 1..NumIds
SmallIds == 1..MaxSmall
StartIds == (1..(MaxSmall + ShortTail)) \cup ((NumIds - TopStarts + 1)..NumIds)

\* ------------------------------------------------------------------------
\* Session store (external collaborator): Session.Info per identifier
\* ------------------------------------------------------------------------

Missing == [exists |-> FALSE, parentID |-> None, agentID |-> NoAgent]
RootInfo == [exists |-> TRUE, parentID |-> None, agentID |-> NoAgent]
Info(p, a) == [exists |-> TRUE, parentID |-> p, agentID |-> a]

\* Stores the model starts from: a chain NumIds -> ... -> MaxSmall+1 ->
\* MaxSmall, feeding into ids 1..MaxSmall whose entries are arbitrary
\* (missing, root, or linked to any small id, itself included).
SmallVals(agents) ==
  {Missing, RootInfo} \cup
  {Info(p, a) : p \in SmallIds, a \in agents}

Stores(agents) ==
  { [i \in Ids |-> IF i \in SmallIds THEN f[i] ELSE Info(i - 1, "investigator")] :
      f \in [SmallIds -> SmallVals(agents)] }

\* Session.get(id): resolves with the stored info, or throws when the
\* session is not found or the store is unavailable (up = FALSE).
SessionGet(s, id, up) ==
  IF up /\ id \in Ids /\ s[id].exists
    THEN [ok |-> TRUE, info |-> s[id]]
    ELSE [ok |-> FALSE, info |-> Missing]

\* ------------------------------------------------------------------------
\* Depth Resolver: calculateDepth (session/depth.ts)
\* ------------------------------------------------------------------------

\* let depth = 0; let currentID = sessionID; const visited = new Set()
WalkInit(sessionID) ==
  [sessionID |-> sessionID, depth |-> 0, currentID |-> sessionID,
   visited |-> {}, status |-> "loop"]

WalkIdle ==
  [sessionID |-> None, depth |-> 0, currentID |-> None,
   visited |-> {}, status |-> "idle"]

\* while (currentID && depth < MAX_DEPTH)
LoopCondNoCeiling(w) == w.currentID # None
LoopCond(w) == w.currentID # None /\ w.depth < MAX_DEPTH

\* if (visited.has(currentID)) break
CycleDetectedNever(w) == FALSE
CycleDetected(w) == w.currentID \in w.visited

\* try { session = await Session.get(currentID) } catch { session = undefined }
DepthLookupNoCatch(s, id, up) ==
  LET g == SessionGet(s, id, up)
  IN  IF g.ok THEN [threw |-> FALSE, parentID |-> g.info.parentID]
              ELSE [threw |-> TRUE, parentID |-> None]
DepthLookup(s, id, up) ==
  LET g == SessionGet(s, id, up)
  IN  IF g.ok THEN [threw |-> FALSE, parentID |-> g.info.parentID]
              ELSE [threw |-> FALSE, parentID |-> None]

\* currentID = session.parentID; depth++
AdvanceNoCount(w, p) == [w EXCEPT !.currentID = p]
Advance(w, p) == [w EXCEPT !.currentID = p, !.depth = @ + 1]

\* One iteration of the while loop; the await of Session.get is the only
\* suspension point, so one iteration is one atomic step reading store s.
WalkIter(s, w, up) ==
  IF ~LoopCond(w) THEN [w EXCEPT !.status = "returned"]
  ELSE IF CycleDetected(w) THEN [w EXCEPT !.status = "returned"]
  ELSE LET v == [w EXCEPT !.visited = @ \cup {w.currentID}]
           r == DepthLookup(s, w.currentID, up)
       IN  IF r.threw THEN [v EXCEPT !.status = "threw"]
           ELSE IF r.parentID = None THEN [v EXCEPT !.status = "returned"]
           ELSE Advance(v, r.parentID)

\* whether an iteration from w performs a Session.get
DoesLookup(w) == LoopCond(w) /\ ~CycleDetected(w)

\* ------------------------------------------------------------------------
\* Ancestry Visibility Gate: wrapClientForDepthAwareness
\* (plugin/client-wrapper.ts) and shouldApplyPruning (session/depth.ts)
\* ------------------------------------------------------------------------

\* result of client.session.get: { data: { id, parentID, ... } } or
\* { data: undefined, error }
NoData == [hasData |-> FALSE, id |-> None, parentID |-> None,
           agentID |-> NoAgent, error |-> TRUE]
Data(id, info) == [hasData |-> TRUE, id |-> id, parentID |-> info.parentID,
                   agentID |-> info.agentID, error |-> FALSE]

\* the underlying target.get(...args), served from the session store
ClientGet(s, id) ==
  IF id \in Ids /\ s[id].exists THEN Data(id, s[id]) ELSE NoData

\* export function shouldApplyPruning(depth) { return depth <= 1 }
ShouldApplyPruningRootOnly(depth) == depth < 1
ShouldApplyPruning(depth) == depth <= 1

\* { ...result, data: { ...result.data, parentID: undefined } }
HideParentRebuilt(result) == [NoData EXCEPT !.hasData = TRUE, !.id = result.id, !.error = FALSE]
HideParent(result) == [result EXCEPT !.parentID = None]

\* members of the wrapped client: every property but session.get is the
\* original one (Reflect.get)
ClientMembers == {<<"session", "get">>, <<"session", "list">>,
                  <<"session", "create">>, <<"app", "log">>}
WrappedMemberAll(m) == IF m[1] = "session" THEN <<"wrapped", m[2]>> ELSE m
WrappedMember(m) == IF m = <<"session", "get">> THEN <<"wrapped", "get">> ELSE m

GateIdle == [pc |-> "idle", req |-> None, raw |-> NoData, out |-> NoData,
             asked |-> <<"none", "none">>, member |-> <<"none", "none">>]

\* ------------------------------------------------------------------------
\* Shape of the ancestry chain of a session in a store (reference
\* definitions for the properties; not part of the program)
\* ------------------------------------------------------------------------

\* one ancestry hop: from a session that exists and has an ancestry link
\* to that link, from anything else to None
Nodes == 0..NumIds
HopOf(s, x) ==
  IF x # None /\ s[x].exists /\ s[x].parentID \in Ids THEN s[x].parentID ELSE None

Twice(h) == [i \in Nodes |-> h[h[i]]]
Least(S) == CHOOSE m \in S : \A m2 \in S : m <= m2
\* x moved by h when the bit of weight b is set in n
StepBit(h, x, n, b) == IF (n \div b) % 2 = 1 THEN h[x] ELSE x

\* kind = "root": a session without a link is reached after `tail` hops;
\* "broken": a missing session is reached after `tail` hops; "cycle": after
\* `tail` hops the chain enters a cycle of k sessions.  at(x, n) is the node
\* n hops from x, by repeated squaring of the hop function (n < 256).
Shape(s, id) ==
  LET h1 == [i \in Nodes |-> HopOf(s, i)]
      h2 == Twice(h1)
      h4 == Twice(h2)
      h8 == Twice(h4)
      h16 == Twice(h8)
      h32 == Twice(h16)
      h64 == Twice(h32)
      h128 == Twice(h64)
      at(x, n) ==
        StepBit(h128, StepBit(h64, StepBit(h32, StepBit(h16, StepBit(h8,
          StepBit(h4, StepBit(h2, StepBit(h1, x, n, 1), n, 2), n, 4), n, 8),
          n, 16), n, 32), n, 64), n, 128)
      y == at(id, NumIds)
  IN  IF y # None
        THEN LET k == Least({m \in 1..NumIds : at(y, m) = y})
                 t == Least({n \in 0..NumIds : at(id, n + k) = at(id, n)})
             IN  [kind |-> "cycle", tail |-> t, k |-> k]
        ELSE LET n == Least({m \in 0..NumIds : at(id, m) # None /\ at(id, m + 1) = None})
             IN  [kind |-> IF s[at(id, n)].exists THEN "root" ELSE "broken",
                  tail |-> n, k |-> 0]

\* ------------------------------------------------------------------------
\* Task Dispatcher: TaskTool.execute (tool/task.ts)
\* ------------------------------------------------------------------------

\* a permission rule: { permission, pattern: "*", action }
Rule(permission, action) ==
  [permission |-> permission, pattern |-> "*", action |-> action]

\* Agent.state(): orchestrator (singleShot false, task allowed),
\* investigator (singleShot true, no rule for task), and a configured agent
\* with single_shot: false and permission: { task: "deny" }
AgentRegistry ==
  [orchestrator |-> [name |-> "orchestrator", singleShot |-> "false",
                     permission |-> <<Rule("*", "allow"), Rule("question", "allow"),
                                      Rule("task", "allow"),
                                      Rule("finish_task", "allow")>>],
   investigator |-> [name |-> "investigator", singleShot |-> "true",
                     permission |-> <<Rule("*", "allow"), Rule("edit", "deny"),
                                      Rule("write", "deny")>>],
   custom       |-> [name |-> "custom", singleShot |-> "false",
                     permission |-> <<Rule("*", "allow"), Rule("task", "deny")>>]]

RoleNames == DOMAIN AgentRegistry
\* The registry is an object literal (const result: Record<string, Info> =
\* {...}), so x[agent] also finds the members every object inherits from
\* Object.prototype; "constructor" stands for them.
InheritedKeys == {"constructor"}
\* values of params.subagent_type: the registered names, an unknown one and
\* the name of an inherited member
RequestedTypes == RoleNames \cup {"ghost"} \cup InheritedKeys

\* Agent.get(name): state().then((x) => x[agent]).  found is the truthiness
\* of the value; permission tells whether the value has a permission list,
\* as every Agent.Info has and an inherited member has not; rules is that
\* list.
AgentGet(name) ==
  IF name \in RoleNames
    THEN [found |-> TRUE, name |-> AgentRegistry[name].name,
          singleShot |-> AgentRegistry[name].singleShot, permission |-> TRUE,
          rules |-> AgentRegistry[name].permission]
    ELSE IF name \in InheritedKeys
      THEN [found |-> TRUE, name |-> "undefined", singleShot |-> "unset",
            permission |-> FALSE, rules |-> <<>>]
      ELSE [found |-> FALSE, name |-> name, singleShot |-> "unset",
            permission |-> FALSE, rules |-> <<>>]

\* config.experimental?.primary_tools: not configured, or a list of tools
PrimaryToolLists == {<<>>, <<"compress", "task">>}

\* const hasTaskPermission = agent.permission.some((rule) =>
\*   rule.permission === "task")
HasTaskPermissionByWildcard(rules) ==
  \E i \in 1..Len(rules) : rules[i].permission \in {"task", "*"}
HasTaskPermission(rules) ==
  \E i \in 1..Len(rules) : rules[i].permission = "task"

\* the permission list given to Session.create
ChildPermission(hasTaskPermission, primaryTools) ==
  <<Rule("todowrite", "deny"), Rule("todoread", "deny")>>
  \o (IF hasTaskPermission THEN <<>> ELSE <<Rule("task", "deny")>>)
  \o [i \in 1..Len(primaryTools) |-> Rule(primaryTools[i], "allow")]

\* cfg.agent[key].single_shot: not given, true or false
SingleShotOverrides == {"unset", "true", "false"}
\* singleShot of the item before the override: false for the orchestrator
\* (line 192), true for the other sub-agents and for an agent the
\* configuration adds (line 312)
DefaultSingleShot(key) == IF key = "orchestrator" THEN "false" ELSE "true"
\* item.singleShot = value.single_shot ?? item.singleShot
ConfiguredSingleShot(key, single_shot) ==
  IF single_shot = "unset" THEN DefaultSingleShot(key) ELSE single_shot

\* const childDepth = (() => { ... })()
ChildDepthByRoleOnly(currentDepth, subagentType) ==
  IF subagentType = "orchestrator" THEN 1 ELSE currentDepth + 2
ChildDepthNoSkip(currentDepth, subagentType) == currentDepth + 1
ChildDepth(currentDepth, subagentType) ==
  IF currentDepth = 0 /\ subagentType = "orchestrator" THEN 1
  ELSE IF currentDepth = 0 THEN 2
  ELSE currentDepth + 1

\* const isSingleShot = childDepth >= 2 ? true : (agent.singleShot ?? true)
IsSingleShotConfigOnly(childDepth, singleShot) ==
  IF singleShot = "unset" THEN TRUE ELSE singleShot = "true"
IsSingleShot(childDepth, singleShot) ==
  IF childDepth >= 2 THEN TRUE
  ELSE IF singleShot = "unset" THEN TRUE ELSE singleShot = "true"

\* had is the number of sessions the store held when execute was called;
\* unsub tells whether the listener of Bus.subscribe is registered and
\* prompted whether SessionPrompt.prompt was called for the child;
\* agentConfig is agent.singleShot of the agent found, and permission the
\* list the child session was created with
TaskIdle ==
  [pc |-> "idle", caller |-> None, role |-> "none", depth |-> 0,
   currentID |-> None, currentDepth |-> 0, childDepth |-> 0,
   isSingleShot |-> FALSE, session_id |-> None, found |-> FALSE,
   session |-> None, created |-> FALSE,
   had |-> 0, unsub |-> FALSE, prompted |-> FALSE, permission |-> <<>>,
   agentConfig |-> "unset", mode |-> "none", error |-> "none"]

\* the end of the local calculateDepth, then childDepth and isSingleShot
TaskDepthDone(t) ==
  LET childDepth == ChildDepth(t.depth, t.role)
  IN  [t EXCEPT !.pc = "session", !.currentDepth = t.depth,
                !.childDepth = childDepth,
                !.isSingleShot = IsSingleShot(childDepth, t.agentConfig)]

\* one iteration of the loop of the local calculateDepth (no visited set,
\* no ceiling): Session.get(currentID).catch(() => undefined)
TaskDepthIter(s, t, up) ==
  IF t.currentID = None THEN TaskDepthDone(t)
  ELSE LET g == SessionGet(s, t.currentID, up)
       IN  IF ~g.ok \/ g.info.parentID = None THEN TaskDepthDone(t)
           ELSE [t EXCEPT !.currentID = g.info.parentID, !.depth = @ + 1]

\* Identifier of the session Session.create makes: the first unused one
NextId(s) == Least({i \in Ids : ~s[i].exists})

\* number of sessions in the store
SessionCount(s) == Cardinality({i \in Ids : s[i].exists})

\* ------------------------------------------------------------------------
\* Text: a string is a sequence of one-character strings, a fixed literal
\* of the source is one element
\* ------------------------------------------------------------------------

LowerCase == <<"a", "b", "c", "d", "e", "f", "g", "h", "i", "j", "k", "l", "m",
               "n", "o", "p", "q", "r", "s", "t", "u", "v", "w", "x", "y", "z">>
UpperCase == <<"A", "B", "C", "D", "E", "F", "G", "H", "I", "J", "K", "L", "M",
               "N", "O", "P", "Q", "R", "S", "T", "U", "V", "W", "X", "Y", "Z">>

\* String.prototype.toUpperCase
ToUpperCase(t) ==
  [i \in DOMAIN t |->
     IF \E k \in DOMAIN LowerCase : LowerCase[k] = t[i]
       THEN UpperCase[CHOOSE k \in DOMAIN LowerCase : LowerCase[k] = t[i]]
       ELSE t[i]]

\* the status enum of finish_task and the text of each value
Statuses == {"completed", "failed", "cancelled"}
StatusText ==
  [completed |-> <<"c", "o", "m", "p", "l", "e", "t", "e", "d">>,
   failed    |-> <<"f", "a", "i", "l", "e", "d">>,
   cancelled |-> <<"c", "a", "n", "c", "e", "l", "l", "e", "d">>]

\* the text of a session identifier
Digits == <<"1", "2", "3", "4", "5", "6", "7", "8", "9">>
IdText(id) == <<"s", "e", "s", "_", Digits[id]>>

\* Array.prototype.join
RECURSIVE Join(_, _)
Join(texts, sep) ==
  IF Len(texts) = 0 THEN <<>>
  ELSE IF Len(texts) = 1 THEN texts[1]
  ELSE texts[1] \o sep \o Join(Tail(texts), sep)

\* ["<task_metadata>", `session_id: ${session.id}`, "</task_metadata>"].join("\n")
Trailer(id) ==
  Join(<< <<"<task_metadata>">>, <<"session_id: ">> \o IdText(id),
          <<"</task_metadata>">> >>, <<"\n">>)

IsPrefix(p, t) == Len(p) <= Len(t) /\ SubSeq(t, 1, Len(p)) = p
IsSuffix(p, t) == Len(p) <= Len(t) /\ SubSeq(t, Len(t) - Len(p) + 1, Len(t)) = p

\* ------------------------------------------------------------------------
\* Completion Signal: FinishTaskTool.execute (tool/finish-task.ts)
\* ------------------------------------------------------------------------

\* the optional learnings argument: absent, or a list of texts
NoLearnings == [given |-> FALSE, list |-> <<>>]
Learnings(list) == [given |-> TRUE, list |-> list]

Summaries == {<<>>, <<"o", "k">>}
LearningsArgs == {NoLearnings, Learnings(<<>>), Learnings(<< <<"b">>, <<"a">> >>)}
FinishParams ==
  [status : Statuses, summary : Summaries, learnings : LearningsArgs]

NoMetadata ==
  [has |-> FALSE, parentSessionID |-> None, childSessionID |-> None,
   status |-> "none", summary |-> <<>>, learnings |-> NoLearnings]

\* const session = await Session.get(ctx.sessionID): the lookup is not
\* caught here.  A session that cannot be resolved makes Session.get reject
\* (the store's error, as calculateDepth expects) or resolve with undefined
\* (as the mocked store of the tool's test does).
FinishLookup(s, sessionID, up, rejects) ==
  LET g == SessionGet(s, sessionID, up)
  IN  IF g.ok THEN [threw |-> FALSE, found |-> TRUE, info |-> g.info]
      ELSE [threw |-> rejects, found |-> FALSE, info |-> Missing]

\* metadata: { parentSessionID, childSessionID, status, summary, learnings }
FinishMetadataSwapped(parentID, sessionID, params) ==
  [has |-> TRUE, parentSessionID |-> sessionID, childSessionID |-> parentID,
   status |-> params.status, summary |-> params.summary,
   learnings |-> params.learnings]
FinishMetadata(parentID, sessionID, params) ==
  [has |-> TRUE, parentSessionID |-> parentID, childSessionID |-> sessionID,
   status |-> params.status, summary |-> params.summary,
   learnings |-> params.learnings]

\* execute(params, ctx): the outcome of the call
FinishTaskExecute(s, sessionID, params, up, rejects) ==
  LET l == FinishLookup(s, sessionID, up, rejects)
  IN  IF l.threw
        THEN [ok |-> FALSE, error |-> "SessionGetRejected", metadata |-> NoMetadata]
      ELSE IF ~l.found
        THEN [ok |-> FALSE, error |-> "NoCurrentSession", metadata |-> NoMetadata]
      ELSE IF l.info.parentID = None
        THEN [ok |-> FALSE, error |-> "NotAChildSession", metadata |-> NoMetadata]
      ELSE [ok |-> TRUE, error |-> "none",
            metadata |-> FinishMetadata(l.info.parentID, sessionID, params)]

\* the calls the parallel dispatches are run with
SignalParams ==
  {[status |-> "completed", summary |-> <<"o", "k">>, learnings |-> NoLearnings],
   [status |-> "failed", summary |-> <<>>,
    learnings |-> Learnings(<< <<"b">>, <<"a">> >>)],
   [status |-> "cancelled", summary |-> <<"o", "k">>, learnings |-> Learnings(<<>>)]}

\* the last finish_task call: its context, inputs and outcome; count, waiting
\* and resolved record the calls made, the waits a completion signal found
\* pending for its session and the waits the published part resolved;
\* status is the status of the tool part when the parts of a call are
\* published one status at a time, and started the persistent dispatches
\* in progress whose child of that session had been started by then
FinIdle ==
  [called |-> FALSE, sessionID |-> None, found |-> FALSE, status |-> "none",
   params |-> [status |-> "completed", summary |-> <<>>, learnings |-> NoLearnings],
   result |-> [ok |-> FALSE, error |-> "none", metadata |-> NoMetadata],
   count |-> 0, waiting |-> {}, resolved |-> {}, started |-> {}]

\* ------------------------------------------------------------------------
\* Task Dispatcher over the event bus (tool/task.ts, from Bus.subscribe on)
\* ------------------------------------------------------------------------

\* dispatches running in parallel, completion signals per behaviour
NumJobs == 2
MaxSignals == 1
MaxLater == 1
JobIds == 1..NumJobs
\* the roles the parallel dispatches name: one of each disposition
BusRoles == {"orchestrator", "investigator"}
BusSessions == 1..MaxSessions

\* MessageV2.Event.PartUpdated: the part of a message of a session.
\* messageID is the job whose prompt created the message, 0 for another.
NoEvent ==
  [sessionID |-> None, messageID |-> 0, type |-> "none", tool |-> "none",
   status |-> "none", metadata |-> NoMetadata]
PartEvent(sessionID, messageID, type, tool, status) ==
  [sessionID |-> sessionID, messageID |-> messageID, type |-> type,
   tool |-> tool, status |-> status, metadata |-> NoMetadata]
\* the completed tool part of a finish_task call, carrying its metadata
SignalEvent(sessionID, metadata) ==
  [sessionID |-> sessionID, messageID |-> 0, type |-> "tool",
   tool |-> "finish_task", status |-> "completed", metadata |-> metadata]
\* the parts the host publishes besides completed finish_task calls
OtherEvents ==
  {PartEvent(c, 1, "text", "none", "none") : c \in BusSessions}
  \cup {PartEvent(c, 0, "tool", "read", "completed") : c \in BusSessions}
  \cup {PartEvent(c, 0, "tool", "finish_task", st) :
          c \in BusSessions, st \in {"running", "error"}}

\* the filter of the finish_task listener (finishUnsub)
FinishMatchesAnyStatus(evt, sessionID) ==
  /\ evt.sessionID = sessionID
  /\ evt.type = "tool"
  /\ evt.tool = "finish_task"
FinishMatchesAnySession(evt, sessionID) ==
  /\ evt.type = "tool"
  /\ evt.tool = "finish_task"
  /\ evt.status = "completed"
FinishMatches(evt, sessionID) ==
  /\ evt.sessionID = sessionID
  /\ evt.type = "tool"
  /\ evt.tool = "finish_task"
  /\ evt.status = "completed"

\* the value the listener resolves finishTaskPromise with
NoValue == [status |-> "none", summary |-> <<>>, learnings |-> NoLearnings]
DefaultSummary == <<"Task completed">>
ResolveValue(metadata) ==
  [status    |-> IF metadata.has THEN metadata.status ELSE "completed",
   summary   |-> IF metadata.has THEN metadata.summary ELSE DefaultSummary,
   learnings |-> IF metadata.has THEN metadata.learnings ELSE NoLearnings]

\* result.parts of the child's response
TextPart(text) == [type |-> "text", text |-> text]
ToolPart == [type |-> "tool", text |-> <<>>]
Responses ==
  { <<>>,
    <<TextPart(<<"d", "o", "n", "e">>)>>,
    <<TextPart(<<"a">>), ToolPart, TextPart(<<"b">>), ToolPart>>,
    <<ToolPart>> }

\* result.parts.findLast((x) => x.type === "text")?.text ?? ""
FirstText(parts) ==
  LET I == {i \in DOMAIN parts : parts[i].type = "text"}
  IN  IF I = {} THEN <<>> ELSE parts[Least(I)].text
LastText(parts) ==
  LET I == {i \in DOMAIN parts : parts[i].type = "text"}
  IN  IF I = {} THEN <<>>
      ELSE parts[CHOOSE i \in I : \A k \in I : k <= i].text

\* output of the single-shot path
SingleShotOutput(parts, id) == LastText(parts) \o <<"\n\n">> \o Trailer(id)

\* result.learnings.map(l => `- ${l}`).join("\n"), when there are learnings
LearningsBlock(learnings) ==
  IF learnings.given /\ Len(learnings.list) > 0
    THEN <<"\n\nLearnings:\n">>
         \o Join([i \in DOMAIN learnings.list |-> <<"- ">> \o learnings.list[i]],
                 <<"\n">>)
    ELSE <<>>

\* output of the persistent path
PersistentOutputNoLearnings(value, id) ==
  <<"[">> \o ToUpperCase(StatusText[value.status]) \o <<"] ">> \o value.summary
  \o <<"\n\n">> \o Trailer(id)
PersistentOutput(value, id) ==
  <<"[">> \o ToUpperCase(StatusText[value.status]) \o <<"] ">> \o value.summary
  \o LearningsBlock(value.learnings)
  \o <<"\n\n">> \o Trailer(id)

\* depth of a session by its stored ancestry chain (chains made by
\* dispatches are acyclic and end in the root session)
RECURSIVE ChainDepth(_, _)
ChainDepth(s, i) ==
  IF s[i].parentID = None THEN 0 ELSE 1 + ChainDepth(s, s[i].parentID)

\* the values the local calculateDepth of the dispatcher can return for a
\* caller: the hops made before a lookup fails, at most the whole chain
LocalDepths(s, id) == 0..ChainDepth(s, id)

\* one dispatch: its place in execute, its subscriptions and listeners, the
\* state of finishTaskPromise and of the child's prompt, and its result.
\* cancelled, abortedAt, abortedRunning and abortedPending record what the
\* abort did and found: SessionPrompt.cancel called, the place in execute,
\* the child's prompt still running, finishTaskPromise still pending.
\* The progress listener (unsub) only updates the metadata shown to the
\* caller; the dispatch keeps whether it is registered.
JobIdle ==
  [pc |-> "idle", session |-> None,
   single |-> FALSE, unsub |-> FALSE, finishUnsub |-> FALSE,
   cancelListener |-> FALSE, abortListener |-> FALSE, aborted |-> FALSE,
   promise |-> "none", value |-> NoValue, by |-> NoEvent,
   prompt |-> "none", response |-> <<>>, output |-> <<>>, sessionId |-> None,
   error |-> "none", cancelled |-> FALSE, abortedAt |-> "none",
   abortedRunning |-> FALSE, abortedPending |-> FALSE]
NoJobs == [j \in JobIds |-> JobIdle]

\* execute up to resolvePromptParts: mode, session, Bus.subscribe (unsub)
\* and ctx.abort.addEventListener("abort", cancel)
JobStarted(role, depth, session) ==
  LET childDepth == ChildDepth(depth, role)
  IN  [JobIdle EXCEPT !.pc = "run", !.session = session,
                      !.single = IsSingleShot(childDepth, AgentGet(role).singleShot),
                      !.unsub = TRUE, !.cancelListener = TRUE]

\* the persistent path with the finish_task listener not yet subscribed
\* when the prompt is started
JobRunningListensLate(job) ==
  IF job.single
    THEN [job EXCEPT !.pc = "prompting", !.prompt = "running"]
    ELSE [job EXCEPT !.pc = "awaiting", !.prompt = "running",
                     !.promise = "pending", !.abortListener = TRUE]

\* if (isSingleShot) await SessionPrompt.prompt(...)
\* else: new Promise(... Bus.subscribe(finishUnsub) ...
\*       ctx.abort.addEventListener("abort", ...)), SessionPrompt.prompt(...)
\*       not awaited, await finishTaskPromise
JobRunning(job) ==
  IF job.single
    THEN [job EXCEPT !.pc = "prompting", !.prompt = "running"]
    ELSE [job EXCEPT !.pc = "awaiting", !.prompt = "running",
                     !.promise = "pending", !.finishUnsub = TRUE,
                     !.abortListener = TRUE]

\* an event delivered to the finish_task listener of a dispatch
OnEventKeepsListening(job, evt) ==
  IF job.promise \in {"pending", "resolved"} /\ FinishMatches(evt, job.session)
    THEN [job EXCEPT !.promise = "resolved",
                     !.value = ResolveValue(evt.metadata),
                     !.by = evt]
    ELSE job
OnEvent(job, evt) ==
  IF job.finishUnsub /\ FinishMatches(evt, job.session)
    THEN [job EXCEPT !.finishUnsub = FALSE,
                     !.promise = IF @ = "pending" THEN "resolved" ELSE @,
                     !.value = IF job.promise = "pending"
                                 THEN ResolveValue(evt.metadata) ELSE @,
                     !.by = IF job.promise = "pending" THEN evt ELSE @]
    ELSE job

\* the prompt of the child settles: the single-shot path continues after
\* its await (unsub(), then Session.messages) or fails with the rejection;
\* the persistent path only logs a rejection
OnPromptSettledKeepsUnsub(job, ok, response) ==
  IF job.single /\ job.pc = "prompting"
    THEN IF ok THEN [job EXCEPT !.prompt = "resolved", !.response = response,
                                !.pc = "collecting"]
               ELSE [job EXCEPT !.prompt = "rejected", !.pc = "failed",
                                !.error = "PromptFailed",
                                !.cancelListener = FALSE]
    ELSE [job EXCEPT !.prompt = IF ok THEN "resolved" ELSE "rejected"]
OnPromptSettledEndsWait(job, ok, response) ==
  IF job.single /\ job.pc = "prompting"
    THEN IF ok THEN [job EXCEPT !.prompt = "resolved", !.response = response,
                                !.unsub = FALSE, !.pc = "collecting"]
               ELSE [job EXCEPT !.prompt = "rejected", !.pc = "failed",
                                !.error = "PromptFailed",
                                !.cancelListener = FALSE]
    ELSE [job EXCEPT !.prompt = IF ok THEN "resolved" ELSE "rejected",
                     !.promise = IF @ = "pending" THEN "resolved" ELSE @,
                     !.finishUnsub = FALSE]
OnPromptSettled(job, ok, response) ==
  IF job.single /\ job.pc = "prompting"
    THEN IF ok THEN [job EXCEPT !.prompt = "resolved", !.response = response,
                                !.unsub = FALSE, !.pc = "collecting"]
               ELSE [job EXCEPT !.prompt = "rejected", !.pc = "failed",
                                !.error = "PromptFailed",
                                !.cancelListener = FALSE]
    ELSE [job EXCEPT !.prompt = IF ok THEN "resolved" ELSE "rejected"]

\* ctx.abort fires: cancel() calls SessionPrompt.cancel(session.id); the
\* listener of the persistent path calls finishUnsub() and reject(...)
OnAbort(job) ==
  LET a == [job EXCEPT !.aborted = TRUE, !.abortedAt = job.pc,
                       !.abortedRunning = (job.prompt = "running"),
                       !.abortedPending = (job.promise = "pending"),
                       !.cancelled = job.cancelListener]
  IN  IF job.abortListener
        THEN [a EXCEPT !.finishUnsub = FALSE,
                       !.promise = IF @ = "pending" THEN "rejected" ELSE @]
        ELSE a

\* const result = await finishTaskPromise; unsub(): a rejection leaves
\* execute at the await, and only the deferred removeEventListener runs
OnSettledPromise(job) ==
  IF job.promise = "resolved"
    THEN [job EXCEPT !.unsub = FALSE, !.pc = "collecting"]
    ELSE [job EXCEPT !.pc = "failed", !.error = "TaskAborted",
                     !.cancelListener = FALSE]

\* the return of either path, after Session.messages
OnReturn(job) ==
  [job EXCEPT !.pc = "returned",
              !.output = IF job.single
                           THEN SingleShotOutput(job.response, job.session)
                           ELSE PersistentOutput(job.value, job.session),
              !.sessionId = job.session,
              !.cancelListener = FALSE]

\* ------------------------------------------------------------------------
\* Project state: ProjectStateStorage and the project_state_read and
\* project_state_write tools (tool/pm-state.ts, tool/project-state.ts)
\* ------------------------------------------------------------------------

\* a field of a stored object or of a partial state: not there, or a list
Absent == [given |-> FALSE, list |-> <<>>]
Given(list) == [given |-> TRUE, list |-> list]
\* values of one field of the schema: lists of items
FieldVals == {<<>>, <<"a">>, <<"b", "a">>}
OptionalVals == {Absent} \cup {Given(v) : v \in FieldVals}

\* the partial states a write can be given: each field present or not
\* (lastUpdated is a time, 0 when absent)
Partials ==
  [objectives : OptionalVals, decisions : OptionalVals,
   learnings : OptionalVals, todos : OptionalVals, lastUpdated : {0}]

\* ProjectStateSchema.parse(data): .default([]) for the four lists,
\* lastUpdated optional
SchemaParse(data) ==
  [objectives  |-> IF data.objectives.given THEN data.objectives.list ELSE <<>>,
   decisions   |-> IF data.decisions.given THEN data.decisions.list ELSE <<>>,
   learnings   |-> IF data.learnings.given THEN data.learnings.list ELSE <<>>,
   todos       |-> IF data.todos.given THEN data.todos.list ELSE <<>>,
   lastUpdated |-> data.lastUpdated]

\* JSON.stringify(updated): the object written to the file
Stored(state) ==
  [objectives  |-> Given(state.objectives),
   decisions   |-> Given(state.decisions),
   learnings   |-> Given(state.learnings),
   todos       |-> Given(state.todos),
   lastUpdated |-> state.lastUpdated]

EmptyObject ==
  [objectives |-> Absent, decisions |-> Absent, learnings |-> Absent,
   todos |-> Absent, lastUpdated |-> 0]

\* the state file: missing, or holding an object
NoFile == [exists |-> FALSE, data |-> EmptyObject]
File(data) == [exists |-> TRUE, data |-> data]

\* an object holding the same list in its four fields
Uniform(list) ==
  [objectives |-> Given(list), decisions |-> Given(list),
   learnings |-> Given(list), todos |-> Given(list), lastUpdated |-> 0]

\* the state files a call can find: none, the empty object, objects with
\* the four lists empty, of one item, of two items, and a mixed object
InitFiles ==
  {NoFile, File(EmptyObject), File(Uniform(<<>>)), File(Uniform(<<"a">>)),
   File(Uniform(<<"b", "a">>)),
   File([objectives |-> Given(<<"a">>), decisions |-> Absent,
         learnings |-> Given(<<"b", "a">>), todos |-> Given(<<>>),
         lastUpdated |-> 0])}

\* ProjectStateStorage.read
StorageRead(file) ==
  IF ~file.exists THEN SchemaParse(EmptyObject) ELSE SchemaParse(file.data)

\* const updated = { objectives: state.objectives ?? existing.objectives,
\* ..., lastUpdated: new Date().toISOString() }
Updated(existing, state, now) ==
  [objectives  |-> IF state.objectives.given
                     THEN state.objectives.list ELSE existing.objectives,
   decisions   |-> IF state.decisions.given
                     THEN state.decisions.list ELSE existing.decisions,
   learnings   |-> IF state.learnings.given
                     THEN state.learnings.list ELSE existing.learnings,
   todos       |-> IF state.todos.given
                     THEN state.todos.list ELSE existing.todos,
   lastUpdated |-> now]

\* ProjectStateStorage.write: the state it stores and returns
StorageWriteReplacesAll(file, state, now) ==
  [SchemaParse(state) EXCEPT !.lastUpdated = now]
StorageWrite(file, state, now) == Updated(StorageRead(file), state, now)

\* isPM(ctx): Session.get(ctx.sessionID).catch(() => undefined), then
\* session ? !session.parentID : false
IsPMAnyResolved(s, sessionID, up) == SessionGet(s, sessionID, up).ok
IsPM(s, sessionID, up) ==
  LET g == SessionGet(s, sessionID, up)
  IN  IF g.ok THEN g.info.parentID = None ELSE FALSE

\* the last call: the operation, the invoking session of a tool call, the
\* partial state given, the file before the call, and the outcome
NoCall ==
  [op |-> "none", sessionID |-> None, resolved |-> FALSE, state |-> EmptyObject,
   before |-> NoFile, ok |-> FALSE, error |-> "none",
   result |-> SchemaParse(EmptyObject)]

\* write calls in progress at the same time on one project
NumWriters == 2
WriterIds == 1..NumWriters
\* no holder of the write lock of the state file
NoHolder == 0
\* Lock.write(stateFile) resolves when no call holds the lock of the file
LockFree(lock) == lock = NoHolder

\* the partial states of the concurrent writes: one field given
WriterPartials ==
  {[EmptyObject EXCEPT ![f] = Given(v)] :
     f \in {"objectives", "decisions", "learnings", "todos"}, v \in FieldVals}

\* one write call: its place in write, the partial state given, what it
\* read from the file, and whether the lock was held when it began
WriterIdle ==
  [pc |-> "idle", state |-> EmptyObject,
   existing |-> SchemaParse(EmptyObject), waited |-> FALSE]

ProjectIdle ==
  [file |-> NoFile, now |-> 0, calls |-> 0, call |-> NoCall,
   lock |-> NoHolder, writers |-> [w \in WriterIds |-> WriterIdle]]

\* calls per behaviour, and the sessions that invoke the tools
MaxCalls == 1
ProjectCallers == 1 .. 3

\* ------------------------------------------------------------------------
\* Activity summary of a dispatch: the listener of Bus.subscribe at the
\* start of execute (tool/task.ts lines 163-187)
\* ------------------------------------------------------------------------

\* tool parts the child publishes while one dispatch is followed
MaxParts == 3
PartIds == 1..MaxParts
\* the child session of the dispatch and the session of its caller
ActivitySessions == 1..2
\* the message the prompt of the dispatch creates (Identifier.ascending
\* ("message")), and any other message
OwnMessage == 1
OtherMessage == 0

\* MessageV2.Event.PartUpdated with the fields the listener reads.  Part
\* identifiers are numbered in their ascending order (Identifier.ascending
\* gives them a hexadecimal time prefix, on which localeCompare and the order
\* of creation agree).  The message of the prompt holds the prompt's own
\* parts, which are not tool parts; tool parts belong to other messages.
NoActivityEvent ==
  [id |-> 0, sessionID |-> None, messageID |-> OtherMessage, type |-> "none",
   tool |-> "none", status |-> "none", title |-> "none"]
ActivityEvents ==
  {[id |-> i, sessionID |-> c, messageID |-> m, type |-> "text",
    tool |-> "none", status |-> "none", title |-> "none"] :
      i \in PartIds, c \in ActivitySessions, m \in {OwnMessage, OtherMessage}}
  \cup
  {[id |-> i, sessionID |-> c, messageID |-> OtherMessage, type |-> "tool",
    tool |-> "read", status |-> st,
    title |-> IF st = "completed" THEN "done" ELSE "none"] :
      i \in PartIds, c \in ActivitySessions, st \in {"running", "completed"}}
  \cup
  {[id |-> i, sessionID |-> c, messageID |-> OtherMessage, type |-> "tool",
    tool |-> "finish_task", status |-> "completed", title |-> "done"] :
      i \in PartIds, c \in ActivitySessions}

\* parts[part.id] = { id, tool, state: { status, title } }
NoEntry == [id |-> 0, tool |-> "none", status |-> "none", title |-> "none"]
Entry(evt) ==
  [id |-> evt.id, tool |-> evt.tool, status |-> evt.status,
   title |-> IF evt.status = "completed" THEN evt.title ELSE "undefined"]

\* the three early returns of the listener
ActivityMatches(evt, sessionID) ==
  /\ evt.sessionID = sessionID
  /\ evt.messageID # OwnMessage
  /\ evt.type = "tool"

\* Object.values(parts): the entries in the order their keys were added
Values(parts, keys) == [i \in 1..Len(keys) |-> parts[keys[i]]]

\* .sort((a, b) => a.id.localeCompare(b.id)): a stable sort by identifier
RECURSIVE Insert(_, _)
Insert(sorted, e) ==
  IF sorted = <<>> THEN <<e>>
  ELSE IF e.id < Head(sorted).id THEN <<e>> \o sorted
  ELSE <<Head(sorted)>> \o Insert(Tail(sorted), e)
RECURSIVE SortById(_)
SortById(list) ==
  IF list = <<>> THEN <<>>
  ELSE Insert(SortById(SubSeq(list, 1, Len(list) - 1)), list[Len(list)])

\* the dispatch followed: its place in execute, its mode, whether the
\* listener is registered, parts with the order its keys were added in,
\* the last summary given to ctx.metadata, and the last event the bus
\* delivered with whether the dispatch was in progress then
ActivityIdle ==
  [pc |-> "idle", session |-> None, single |-> FALSE, unsub |-> FALSE,
   parts |-> [i \in PartIds |-> NoEntry], keys |-> <<>>,
   summary |-> <<>>, last |-> NoActivityEvent, during |-> FALSE]

\* the listener called with an event
OnPartUnsorted(act, evt) ==
  IF act.unsub /\ ActivityMatches(evt, act.session)
    THEN LET parts == [act.parts EXCEPT ![evt.id] = Entry(evt)]
             keys == IF act.parts[evt.id] = NoEntry
                       THEN Append(act.keys, evt.id) ELSE act.keys
         IN  [act EXCEPT !.parts = parts, !.keys = keys,
                         !.summary = Values(parts, keys)]
    ELSE act
OnPart(act, evt) ==
  IF act.unsub /\ ActivityMatches(evt, act.session)
    THEN LET parts == [act.parts EXCEPT ![evt.id] = Entry(evt)]
             keys == IF act.parts[evt.id] = NoEntry
                       THEN Append(act.keys, evt.id) ELSE act.keys
         IN  [act EXCEPT !.parts = parts, !.keys = keys,
                         !.summary = SortById(Values(parts, keys))]
    ELSE act

\* ------------------------------------------------------------------------
\* State
\* ------------------------------------------------------------------------

VARIABLES
  sessions,   \* the session store
  walk,       \* the calculateDepth call in progress
  hist,       \* history of that call: lookups made, failure, mutations
  gate,       \* the wrapped client call in progress
  task,       \* the TaskTool.execute call in progress
  jobs,       \* the dispatches running in parallel over the event bus
  cancels,    \* the sessions SessionPrompt.cancel was called for
  fin,        \* the last finish_task call: its context, inputs and outcome
  project,    \* the stored project state and the last call made on it
  activity    \* one dispatch and the activity summary its listener keeps

vars == <<sessions, walk, hist, gate, task, jobs, cancels, fin, project, activity>>

NoShape == [kind |-> "none", tail |-> 0, k |-> 0]
HistInit == [lookups |-> 0, failed |-> FALSE, mutated |-> 0, shape |-> NoShape]

\* ------------------------------------------------------------------------
\* Depth Resolver as a process
\* ------------------------------------------------------------------------

DepthInit ==
  /\ sessions \in Stores({"orchestrator"})
  /\ walk = WalkIdle
  /\ hist = HistInit
  /\ gate = GateIdle
  /\ task = TaskIdle
  /\ jobs = NoJobs
  /\ cancels = {}
  /\ fin = FinIdle
  /\ project = ProjectIdle
  /\ activity = ActivityIdle

\* a caller invokes calculateDepth(sessionID)
StartWalk ==
  /\ walk.status = "idle"
  /\ \E sid \in StartIds :
       /\ walk' = WalkInit(sid)
       /\ hist' = [HistInit EXCEPT !.shape = Shape(sessions, sid)]
  /\ gate.pc = "idle"
  /\ UNCHANGED <<sessions, gate, task, jobs, cancels, fin, project, activity>>

\* one loop iteration; the store may be unavailable for this lookup
WalkStepRepairsCycle ==
  /\ walk.status = "loop"
  /\ \E up \in BOOLEAN :
       /\ walk' = WalkIter(sessions, walk, up)
       /\ hist' = IF DoesLookup(walk)
                    THEN [hist EXCEPT !.lookups = @ + 1,
                                      !.failed = ~SessionGet(sessions, walk.currentID, up).ok]
                    ELSE hist
  /\ sessions' = IF LoopCond(walk) /\ CycleDetected(walk)
                   THEN [sessions EXCEPT ![walk.currentID].parentID = None]
                   ELSE sessions
  /\ UNCHANGED <<gate, task, jobs, cancels, fin, project, activity>>
WalkStep ==
  /\ walk.status = "loop"
  /\ \E up \in BOOLEAN :
       /\ walk' = WalkIter(sessions, walk, up)
       /\ hist' = IF DoesLookup(walk)
                    THEN [hist EXCEPT !.lookups = @ + 1,
                                      !.failed = ~SessionGet(sessions, walk.currentID, up).ok]
                    ELSE hist
  /\ UNCHANGED <<sessions, gate, task, jobs, cancels, fin, project, activity>>

\* The walk is about to look up a session of the mutable region.  A store
\* change made earlier in the walk reads the same as a different initial
\* store, because the walk has not looked at that region yet.
InMutableRegion == walk.status = "loop" /\ walk.currentID \in SmallIds

\* a concurrent dispatch creates a session (Session.create with parentID)
CreateSession ==
  /\ InMutableRegion
  /\ hist.mutated < MaxMutations
  /\ \E i \in SmallIds, p \in SmallIds :
       /\ ~sessions[i].exists
       /\ sessions[p].exists
       /\ sessions' = [sessions EXCEPT ![i] = Info(p, "orchestrator")]
  /\ hist' = [hist EXCEPT !.mutated = @ + 1]
  /\ UNCHANGED <<walk, gate, task, jobs, cancels, fin, project, activity>>

\* the store rewrites an existing session with a different ancestry link
Relink ==
  /\ InMutableRegion
  /\ hist.mutated < MaxMutations
  /\ \E i \in SmallIds, v \in SmallVals({"orchestrator"}) :
       /\ sessions[i].exists
       /\ v.exists
       /\ sessions[i].parentID # v.parentID
       /\ sessions' = [sessions EXCEPT ![i] = v]
  /\ hist' = [hist EXCEPT !.mutated = @ + 1]
  /\ UNCHANGED <<walk, gate, task, jobs, cancels, fin, project, activity>>

DepthNext == StartWalk \/ WalkStep
DepthSpec == DepthInit /\ [][DepthNext]_vars /\ WF_vars(WalkStep)

ConcNext == StartWalk \/ WalkStep \/ CreateSession \/ Relink
ConcSpec == DepthInit /\ [][ConcNext]_vars /\ WF_vars(WalkStep)

\* ------------------------------------------------------------------------
\* Ancestry Visibility Gate as a process
\* ------------------------------------------------------------------------

\* wrappedGet up to the await of calculateDepth: the underlying read, the
\* two early returns, then the start of the walk
GateStart ==
  /\ gate.pc = "idle"
  /\ walk.status = "idle"
  /\ \E req \in StartIds \cup {None} :
       LET result == ClientGet(sessions, req)
           shape == IF req = None THEN NoShape ELSE Shape(sessions, req)
       IN  /\ hist' = [HistInit EXCEPT !.shape = shape]
           /\ IF req = None \/ ~result.hasData \/ result.parentID = None
                THEN /\ gate' = [gate EXCEPT !.pc = "done", !.req = req,
                                             !.raw = result, !.out = result]
                     /\ walk' = walk
                ELSE /\ gate' = [gate EXCEPT !.pc = "depth", !.req = req,
                                             !.raw = result]
                     /\ walk' = WalkInit(req)
  /\ UNCHANGED <<sessions, task, jobs, cancels, fin, project, activity>>

\* wrappedGet after calculateDepth settled: hide or keep parentID; the
\* catch returns the original result
GateFinish ==
  /\ gate.pc = "depth"
  /\ walk.status \in {"returned", "threw"}
  /\ gate' = [gate EXCEPT
                !.pc = "done",
                !.out = IF walk.status = "threw" THEN gate.raw
                        ELSE IF ShouldApplyPruning(walk.depth) THEN HideParent(gate.raw)
                        ELSE gate.raw]
  /\ UNCHANGED <<sessions, walk, hist, task, jobs, cancels, fin, project, activity>>

\* any property read on the wrapped client
ProxyGet ==
  /\ gate.pc = "idle"
  /\ walk.status = "idle"
  /\ \E m \in ClientMembers :
       gate' = [gate EXCEPT !.pc = "member", !.asked = m, !.member = WrappedMember(m)]
  /\ UNCHANGED <<sessions, walk, hist, task, jobs, cancels, fin, project, activity>>

GateNext == GateStart \/ WalkStep \/ GateFinish \/ ProxyGet
GateSpec == DepthInit /\ [][GateNext]_vars /\ WF_vars(WalkStep)

\* ------------------------------------------------------------------------
\* Task Dispatcher as a process
\* ------------------------------------------------------------------------

\* one root session (the PM session), nothing dispatched yet
DispatchInit ==
  /\ sessions = [i \in Ids |-> IF i = 1 THEN RootInfo ELSE Missing]
  /\ walk = WalkIdle
  /\ hist = HistInit
  /\ gate = GateIdle
  /\ task = TaskIdle
  /\ jobs = NoJobs
  /\ cancels = {}
  /\ fin = FinIdle
  /\ project = ProjectIdle
  /\ activity = ActivityIdle

\* execute(params, ctx) up to the local calculateDepth: Agent.get, the
\* unknown agent error, and agent.permission.some(...), which throws a
\* TypeError when the value found has no permission list
TaskStart ==
  /\ task.pc \in {"idle", "returned", "failed"}
  /\ \E caller \in Ids, subagentType \in RequestedTypes :
       /\ sessions[caller].exists
       /\ task' = IF ~AgentGet(subagentType).found
                    THEN [TaskIdle EXCEPT !.pc = "failed", !.caller = caller,
                                          !.role = subagentType,
                                          !.error = "UnknownAgent"]
                  ELSE IF ~AgentGet(subagentType).permission
                    THEN [TaskIdle EXCEPT !.pc = "failed", !.caller = caller,
                                          !.role = subagentType,
                                          !.error = "TypeError"]
                    ELSE [TaskIdle EXCEPT !.pc = "depth", !.caller = caller,
                                          !.role = subagentType,
                                          !.currentID = caller,
                                          !.agentConfig = AgentGet(subagentType).singleShot,
                                          !.had = SessionCount(sessions)]
  /\ UNCHANGED <<sessions, walk, hist, gate, jobs, cancels, fin, project, activity>>

\* one lookup of the local calculateDepth
TaskDepthStep ==
  /\ task.pc = "depth"
  /\ \E up \in BOOLEAN : task' = TaskDepthIter(sessions, task, up)
  /\ UNCHANGED <<sessions, walk, hist, gate, jobs, cancels, fin, project, activity>>

\* the session of the dispatch: params.session_id when it resolves,
\* otherwise Session.create({ parentID: ctx.sessionID, agentID: agent.name,
\* permission: [...] })
TaskSessionAlwaysCreates ==
  /\ task.pc = "session"
  /\ \E sid \in {None} \cup (1..MaxSessions), up \in BOOLEAN,
        primaryTools \in PrimaryToolLists :
       /\ NextId(sessions) <= MaxSessions
       /\ sessions' = [sessions EXCEPT ![NextId(sessions)] =
                         Info(task.caller, AgentGet(task.role).name)]
       /\ task' = [task EXCEPT !.pc = "message", !.session_id = sid,
                               !.found = (sid # None /\ SessionGet(sessions, sid, up).ok),
                               !.created = TRUE,
                               !.permission = ChildPermission(
                                  HasTaskPermission(AgentGet(task.role).rules),
                                  primaryTools),
                               !.session = NextId(sessions)]
  /\ UNCHANGED <<walk, hist, gate, jobs, cancels, fin, project, activity>>
TaskSession ==
  /\ task.pc = "session"
  /\ \E sid \in {None} \cup (1..MaxSessions), up \in BOOLEAN,
        primaryTools \in PrimaryToolLists :
       IF sid # None /\ SessionGet(sessions, sid, up).ok
         THEN /\ task' = [task EXCEPT !.pc = "message", !.session_id = sid,
                                      !.found = TRUE, !.session = sid]
              /\ sessions' = sessions
         ELSE /\ NextId(sessions) <= MaxSessions
              /\ sessions' = [sessions EXCEPT ![NextId(sessions)] =
                                Info(task.caller, AgentGet(task.role).name)]
              /\ task' = [task EXCEPT !.pc = "message", !.session_id = sid,
                                      !.created = TRUE,
                                      !.permission = ChildPermission(
                                         HasTaskPermission(AgentGet(task.role).rules),
                                         primaryTools),
                                      !.session = NextId(sessions)]
  /\ UNCHANGED <<walk, hist, gate, jobs, cancels, fin, project, activity>>

\* MessageV2.get and the assistant-message check
TaskMessageAfterSubscribe ==
  /\ task.pc = "message"
  /\ \E assistant \in BOOLEAN :
       task' = IF assistant
                 THEN [task EXCEPT !.pc = "run"]
                 ELSE [task EXCEPT !.pc = "failed", !.error = "NotAssistant",
                                   !.unsub = TRUE]
  /\ UNCHANGED <<sessions, walk, hist, gate, jobs, cancels, fin, project, activity>>
TaskMessage ==
  /\ task.pc = "message"
  /\ \E assistant \in BOOLEAN :
       task' = IF assistant
                 THEN [task EXCEPT !.pc = "run"]
                 ELSE [task EXCEPT !.pc = "failed", !.error = "NotAssistant"]
  /\ UNCHANGED <<sessions, walk, hist, gate, jobs, cancels, fin, project, activity>>

\* Bus.subscribe (unsub), then if (isSingleShot) await
\* SessionPrompt.prompt(...) else start the prompt and await
\* finishTaskPromise
TaskRun ==
  /\ task.pc = "run"
  /\ task' = IF task.isSingleShot
               THEN [task EXCEPT !.pc = "prompting", !.mode = "single",
                                 !.unsub = TRUE, !.prompted = TRUE]
               ELSE [task EXCEPT !.pc = "awaiting", !.mode = "persistent",
                                 !.unsub = TRUE, !.prompted = TRUE]
  /\ UNCHANGED <<sessions, walk, hist, gate, jobs, cancels, fin, project, activity>>

\* single-shot: the child's first response is produced
TaskPromptDone ==
  /\ task.pc = "prompting"
  /\ task' = [task EXCEPT !.pc = "returned", !.unsub = FALSE]
  /\ UNCHANGED <<sessions, walk, hist, gate, jobs, cancels, fin, project, activity>>

\* persistent: a completed finish_task part of the child session arrives
TaskSignal ==
  /\ task.pc = "awaiting"
  /\ task' = [task EXCEPT !.pc = "returned", !.unsub = FALSE]
  /\ UNCHANGED <<sessions, walk, hist, gate, jobs, cancels, fin, project, activity>>

DispatchNext ==
  \/ TaskStart \/ TaskDepthStep \/ TaskSession \/ TaskMessage
  \/ TaskRun \/ TaskPromptDone \/ TaskSignal
DispatchSpec == DispatchInit /\ [][DispatchNext]_vars

\* ------------------------------------------------------------------------
\* Parallel dispatches, the event bus and the completion signal as a process
\* ------------------------------------------------------------------------

BusInit ==
  /\ sessions = [i \in Ids |-> IF i = 1 THEN RootInfo ELSE Missing]
  /\ walk = WalkIdle
  /\ hist = HistInit
  /\ gate = GateIdle
  /\ task = TaskIdle
  /\ jobs = NoJobs
  /\ cancels = {}
  /\ fin = FinIdle
  /\ project = ProjectIdle
  /\ activity = ActivityIdle

\* a dispatch begins (the dispatches are numbered in the order they begin):
\* the child session is params.session_id when it resolves, otherwise a new
\* session whose parent is the caller
JobStart ==
  \E j \in JobIds, caller \in BusSessions, role \in BusRoles,
     sid \in {None} \cup BusSessions :
    /\ jobs[j].pc = "idle"
    /\ IF j = 1 THEN TRUE ELSE jobs[j - 1].pc # "idle"
    /\ sessions[caller].exists
    /\ \E depth \in LocalDepths(sessions, caller) :
         IF sid # None /\ sessions[sid].exists
           THEN /\ jobs' = [jobs EXCEPT ![j] = JobStarted(role, depth, sid)]
                /\ sessions' = sessions
           ELSE /\ NextId(sessions) <= MaxSessions
                /\ sessions' = [sessions EXCEPT ![NextId(sessions)] =
                                  Info(caller, AgentGet(role).name)]
                /\ jobs' = [jobs EXCEPT ![j] =
                              JobStarted(role, depth, NextId(sessions))]
    /\ UNCHANGED <<walk, hist, gate, task, cancels, fin, project, activity>>

\* the dispatch starts the child's prompt in its mode
JobRun ==
  \E j \in JobIds :
    /\ jobs[j].pc = "run"
    /\ jobs' = [jobs EXCEPT ![j] = JobRunning(jobs[j])]
    /\ UNCHANGED <<sessions, walk, hist, gate, task, cancels, fin, project, activity>>

\* the host publishes a part; the bus calls every registered listener
PublishPart ==
  \E evt \in OtherEvents :
    /\ jobs' = [j \in JobIds |-> OnEvent(jobs[j], evt)]
    /\ UNCHANGED <<sessions, walk, hist, gate, task, cancels, fin, project, activity>>

\* a session calls finish_task; the host publishes the tool part of the
\* call, completed with the metadata of the result, or in error
PublishSignal ==
  \E c \in BusSessions, params \in SignalParams, up \in BOOLEAN,
     rejects \in BOOLEAN :
    LET r == FinishTaskExecute(sessions, c, params, up, rejects)
        evt == IF r.ok THEN SignalEvent(c, r.metadata)
                       ELSE PartEvent(c, 0, "tool", "finish_task", "error")
        after == [j \in JobIds |-> OnEvent(jobs[j], evt)]
    IN  /\ fin.count < MaxSignals
        /\ jobs' = after
        /\ fin' = [FinIdle EXCEPT
                     !.called = TRUE, !.count = fin.count + 1,
                     !.waiting = {j \in JobIds : /\ r.ok
                                                 /\ jobs[j].promise = "pending"
                                                 /\ jobs[j].session = c},
                     !.resolved = {j \in JobIds : /\ jobs[j].promise = "pending"
                                                  /\ after[j].promise = "resolved"}]
        /\ UNCHANGED <<sessions, walk, hist, gate, task, cancels, project, activity>>

\* SessionPrompt.prompt of a dispatch resolves with a response or rejects
PromptSettle ==
  \E j \in JobIds, ok \in BOOLEAN, response \in Responses :
    /\ jobs[j].prompt = "running"
    /\ jobs' = [jobs EXCEPT ![j] = OnPromptSettled(jobs[j], ok, response)]
    /\ UNCHANGED <<sessions, walk, hist, gate, task, cancels, fin, project, activity>>

\* the caller's cancellation fires while execute is in progress
Abort ==
  \E j \in JobIds :
    /\ ~jobs[j].aborted
    /\ jobs[j].pc \in {"run", "prompting", "awaiting", "collecting"}
    /\ jobs' = [jobs EXCEPT ![j] = OnAbort(jobs[j])]
    /\ cancels' = IF jobs[j].cancelListener
                    THEN cancels \cup {jobs[j].session} ELSE cancels
    /\ UNCHANGED <<sessions, walk, hist, gate, task, fin, project, activity>>

\* the persistent path continues after await finishTaskPromise
JobResume ==
  \E j \in JobIds :
    /\ jobs[j].pc = "awaiting"
    /\ jobs[j].promise \in {"resolved", "rejected"}
    /\ jobs' = [jobs EXCEPT ![j] = OnSettledPromise(jobs[j])]
    /\ UNCHANGED <<sessions, walk, hist, gate, task, cancels, fin, project, activity>>

\* execute returns its result
JobReturn ==
  \E j \in JobIds :
    /\ jobs[j].pc = "collecting"
    /\ jobs' = [jobs EXCEPT ![j] = OnReturn(jobs[j])]
    /\ UNCHANGED <<sessions, walk, hist, gate, task, cancels, fin, project, activity>>

\* ------------------------------------------------------------------------
\* The completion signal tool alone, over every store of the family
\* ------------------------------------------------------------------------

\* execute(params, ctx) with ctx.sessionID = sessionID
FinishTaskCall ==
  \E sessionID \in StartIds, params \in FinishParams, up \in BOOLEAN,
     rejects \in BOOLEAN :
    /\ ~fin.called
    /\ fin' = [FinIdle EXCEPT
                 !.called = TRUE, !.sessionID = sessionID, !.params = params,
                 !.found = SessionGet(sessions, sessionID, up).ok,
                 !.result = FinishTaskExecute(sessions, sessionID, params, up, rejects)]
    /\ UNCHANGED <<sessions, walk, hist, gate, task, jobs, cancels, project, activity>>

SignalSpec == DepthInit /\ [][FinishTaskCall]_vars

BusNext ==
  \/ JobStart \/ JobRun \/ PublishPart \/ PublishSignal
  \/ PromptSettle \/ Abort \/ JobResume \/ JobReturn
BusSpec == BusInit /\ [][BusNext]_vars

\* ------------------------------------------------------------------------
\* The two depth computations on the same session and store
\* ------------------------------------------------------------------------

\* calculateDepth(sessionID) of session/depth.ts and the local
\* calculateDepth(ctx.sessionID) of the dispatcher are called for the same
\* session; the store answers both alike (a lookup fails only for a
\* session that is missing)
CompareStart ==
  /\ walk.status = "idle" /\ task.pc = "idle"
  /\ \E sid \in StartIds :
       /\ walk' = WalkInit(sid)
       /\ hist' = [HistInit EXCEPT !.shape = Shape(sessions, sid)]
       /\ task' = [TaskIdle EXCEPT !.pc = "depth", !.caller = sid,
                                   !.role = "orchestrator", !.currentID = sid,
                                   !.agentConfig = AgentGet("orchestrator").singleShot]
  /\ UNCHANGED <<sessions, gate, jobs, cancels, fin, project, activity>>

\* one loop iteration of the Depth Resolver
CompareWalkStep ==
  /\ walk.status = "loop"
  /\ walk' = WalkIter(sessions, walk, TRUE)
  /\ UNCHANGED <<sessions, hist, gate, task, jobs, cancels, fin, project, activity>>

\* one loop iteration of the local walk, taken after the resolver has
\* returned; the walk is followed for at most LocalCap hops
CompareTaskStep ==
  /\ walk.status = "returned"
  /\ task.pc = "depth"
  /\ task.depth < LocalCap
  /\ task' = TaskDepthIter(sessions, task, TRUE)
  /\ UNCHANGED <<sessions, walk, hist, gate, jobs, cancels, fin, project, activity>>

CompareNext == CompareStart \/ CompareWalkStep \/ CompareTaskStep
CompareSpec == DepthInit /\ [][CompareNext]_vars

\* ------------------------------------------------------------------------
\* The project state and its tools as a process
\* ------------------------------------------------------------------------

\* a PM session, an orchestrator session under it and an identifier no
\* session has; one of the state files
ProjectInit ==
  /\ sessions = [i \in Ids |-> IF i = 1 THEN RootInfo
                               ELSE IF i = 2 THEN Info(1, "orchestrator")
                               ELSE Missing]
  /\ walk = WalkIdle
  /\ hist = HistInit
  /\ gate = GateIdle
  /\ task = TaskIdle
  /\ jobs = NoJobs
  /\ cancels = {}
  /\ fin = FinIdle
  /\ project \in {[ProjectIdle EXCEPT !.file = f] : f \in InitFiles}
  /\ activity = ActivityIdle

\* ProjectStateStorage.read(projectRoot)
StorageReadCallCreates ==
  /\ project.calls < MaxCalls
  /\ project' = [project EXCEPT
       !.calls = @ + 1,
       !.file = IF project.file.exists THEN @
                ELSE File(Stored(StorageRead(project.file))),
       !.call = [NoCall EXCEPT !.op = "read", !.before = project.file,
                               !.ok = TRUE,
                               !.result = StorageRead(project.file)]]
  /\ UNCHANGED <<sessions, walk, hist, gate, task, jobs, cancels, fin, activity>>
StorageReadCall ==
  /\ project.calls < MaxCalls
  /\ project' = [project EXCEPT
       !.calls = @ + 1,
       !.call = [NoCall EXCEPT !.op = "read", !.before = project.file,
                               !.ok = TRUE,
                               !.result = StorageRead(project.file)]]
  /\ UNCHANGED <<sessions, walk, hist, gate, task, jobs, cancels, fin, activity>>

\* ProjectStateStorage.write(projectRoot, state) at the time now + 1
StorageWriteCall ==
  \E state \in Partials :
    LET updated == StorageWrite(project.file, state, project.now + 1)
    IN  /\ project.calls < MaxCalls
        /\ project' = [project EXCEPT
             !.calls = @ + 1,
             !.now = @ + 1,
             !.file = File(Stored(updated)),
             !.call = [NoCall EXCEPT !.op = "write", !.state = state,
                                     !.before = project.file, !.ok = TRUE,
                                     !.result = updated]]
        /\ UNCHANGED <<sessions, walk, hist, gate, task, jobs, cancels, fin, activity>>

\* project_state_read: execute(_params, ctx) with ctx.sessionID = sessionID
ProjectStateRead ==
  \E sessionID \in ProjectCallers, up \in BOOLEAN :
    LET denied == [NoCall EXCEPT !.op = "project_state_read",
                                 !.sessionID = sessionID,
                                 !.resolved = SessionGet(sessions, sessionID, up).ok,
                                 !.before = project.file,
                                 !.error = "PMOnly"]
    IN  /\ project.calls < MaxCalls
        /\ project' = [project EXCEPT
             !.calls = @ + 1,
             !.call = IF ~IsPM(sessions, sessionID, up) THEN denied
                      ELSE [denied EXCEPT !.ok = TRUE, !.error = "none",
                                          !.result = StorageRead(project.file)]]
        /\ UNCHANGED <<sessions, walk, hist, gate, task, jobs, cancels, fin, activity>>

\* project_state_write: execute(params, ctx) with ctx.sessionID = sessionID
ProjectStateWrite ==
  \E sessionID \in ProjectCallers, up \in BOOLEAN, params \in Partials :
    LET denied == [NoCall EXCEPT !.op = "project_state_write",
                                 !.sessionID = sessionID,
                                 !.resolved = SessionGet(sessions, sessionID, up).ok,
                                 !.state = params,
                                 !.before = project.file,
                                 !.error = "PMOnly"]
        updated == StorageWrite(project.file, params, project.now + 1)
    IN  /\ project.calls < MaxCalls
        /\ project' =
             IF ~IsPM(sessions, sessionID, up)
               THEN [project EXCEPT !.calls = @ + 1, !.call = denied]
               ELSE [project EXCEPT
                       !.calls = @ + 1,
                       !.now = @ + 1,
                       !.file = File(Stored(updated)),
                       !.call = [denied EXCEPT !.ok = TRUE, !.error = "none",
                                               !.result = updated]]
        /\ UNCHANGED <<sessions, walk, hist, gate, task, jobs, cancels, fin, activity>>

ProjectNext ==
  \/ StorageReadCall \/ StorageWriteCall
  \/ ProjectStateRead \/ ProjectStateWrite
ProjectSpec == ProjectInit /\ [][ProjectNext]_vars

\* ------------------------------------------------------------------------
\* Completion signals that follow the first one
\* ------------------------------------------------------------------------

\* a session calls finish_task again after a signal was published; the
\* host publishes the tool part of this call as it did for the first
PublishLater ==
  \E c \in BusSessions, params \in SignalParams, up \in BOOLEAN,
     rejects \in BOOLEAN :
    LET r == FinishTaskExecute(sessions, c, params, up, rejects)
        evt == IF r.ok THEN SignalEvent(c, r.metadata)
                       ELSE PartEvent(c, 0, "tool", "finish_task", "error")
        after == [j \in JobIds |-> OnEvent(jobs[j], evt)]
    IN  /\ fin.count >= MaxSignals
        /\ fin.count < MaxSignals + MaxLater
        /\ jobs' = after
        /\ fin' = [FinIdle EXCEPT
                     !.called = TRUE, !.count = fin.count + 1,
                     !.sessionID = c, !.params = params, !.result = r,
                     !.waiting = {j \in JobIds : /\ r.ok
                                                 /\ jobs[j].promise = "pending"
                                                 /\ jobs[j].session = c},
                     !.resolved = {j \in JobIds : /\ jobs[j].promise = "pending"
                                                  /\ after[j].promise = "resolved"}]
        /\ UNCHANGED <<sessions, walk, hist, gate, task, cancels, project, activity>>

\* The prompts of the children are left running here: their settling does
\* not touch a wait (OnPromptSettled).
RepeatNext ==
  \/ JobStart \/ JobRun \/ PublishSignal \/ PublishLater
  \/ Abort \/ JobResume \/ JobReturn
RepeatSpec == BusInit /\ [][RepeatNext]_vars

\* ------------------------------------------------------------------------
\* Dispatches whose caller was cancelled before the listeners were attached
\* ------------------------------------------------------------------------

\* ctx.abort fired during the awaits that precede addEventListener (Config.get,
\* ctx.ask, Agent.get, calculateDepth, Session.create, MessageV2.get): an
\* AbortSignal dispatches its "abort" event once, so a listener added
\* afterwards is registered and never called
JobStartedAborted(role, depth, session) ==
  [JobStarted(role, depth, session) EXCEPT !.aborted = TRUE,
                                           !.abortedAt = "start"]

\* a dispatch begins and its caller is cancelled before line 192
JobStartAborted ==
  \E j \in JobIds, caller \in BusSessions, role \in BusRoles,
     sid \in {None} \cup BusSessions :
    /\ jobs[j].pc = "idle"
    /\ IF j = 1 THEN TRUE ELSE jobs[j - 1].pc # "idle"
    /\ sessions[caller].exists
    /\ \E depth \in LocalDepths(sessions, caller) :
         IF sid # None /\ sessions[sid].exists
           THEN /\ jobs' = [jobs EXCEPT ![j] = JobStartedAborted(role, depth, sid)]
                /\ sessions' = sessions
           ELSE /\ NextId(sessions) <= MaxSessions
                /\ sessions' = [sessions EXCEPT ![NextId(sessions)] =
                                  Info(caller, AgentGet(role).name)]
                /\ jobs' = [jobs EXCEPT ![j] =
                              JobStartedAborted(role, depth, NextId(sessions))]
    /\ UNCHANGED <<walk, hist, gate, task, cancels, fin, project, activity>>

\* The dispatcher's own steps are taken eventually, and the child's prompt
\* settles; nothing obliges the child to call finish_task.
EarlyAbortNext ==
  \/ JobStartAborted \/ JobRun \/ PublishPart \/ PublishSignal
  \/ PromptSettle \/ JobResume \/ JobReturn
EarlyAbortSpec ==
  /\ BusInit /\ [][EarlyAbortNext]_vars
  /\ WF_vars(JobRun) /\ WF_vars(PromptSettle)
  /\ WF_vars(JobResume) /\ WF_vars(JobReturn)

\* ------------------------------------------------------------------------
\* A gated read of the session a dispatch works with
\* ------------------------------------------------------------------------

\* wrappedGet called by the downstream consumer for the child session of
\* the dispatch: the underlying read, the early return, then calculateDepth
ChildRead ==
  /\ gate.pc = "idle"
  /\ walk.status = "idle"
  /\ task.session # None
  /\ LET result == ClientGet(sessions, task.session)
     IN  IF ~result.hasData \/ result.parentID = None
           THEN /\ gate' = [gate EXCEPT !.pc = "done", !.req = task.session,
                                        !.raw = result, !.out = result]
                /\ walk' = walk
           ELSE /\ gate' = [gate EXCEPT !.pc = "depth", !.req = task.session,
                                        !.raw = result]
                /\ walk' = WalkInit(task.session)
  /\ hist' = HistInit
  /\ UNCHANGED <<sessions, task, jobs, cancels, fin, project, activity>>

ChildReadNext ==
  \/ TaskStart \/ TaskDepthStep \/ TaskSession \/ TaskMessage
  \/ ChildRead \/ WalkStep \/ GateFinish
ChildReadSpec == DispatchInit /\ [][ChildReadNext]_vars

\* ------------------------------------------------------------------------
\* One dispatch and its activity summary as a process
\* ------------------------------------------------------------------------

\* execute between Bus.subscribe (line 166) and the unsub() call
Active(pc) == pc \in {"run", "prompting", "awaiting", "signalled"}

\* execute up to resolvePromptParts, called from the root session: the
\* child session is created and the listener subscribed
ActivityStart ==
  /\ activity.pc = "idle"
  /\ \E role \in BusRoles :
       /\ sessions' = [sessions EXCEPT ![NextId(sessions)] =
                         Info(1, AgentGet(role).name)]
       /\ activity' = [ActivityIdle EXCEPT
            !.pc = "run", !.session = NextId(sessions),
            !.single = IsSingleShot(ChildDepth(0, role), AgentGet(role).singleShot),
            !.unsub = TRUE]
  /\ UNCHANGED <<walk, hist, gate, task, jobs, cancels, fin, project>>

\* the prompt of the child is started in the mode of the dispatch
ActivityRun ==
  /\ activity.pc = "run"
  /\ activity' = [activity EXCEPT
       !.pc = IF activity.single THEN "prompting" ELSE "awaiting"]
  /\ UNCHANGED <<sessions, walk, hist, gate, task, jobs, cancels, fin, project>>

\* the host publishes a part: the bus calls the activity listener, then the
\* finish_task listener of a persistent dispatch that is waiting
ActivityPublish ==
  /\ \E evt \in ActivityEvents :
       LET heard == OnPart(activity, evt)
       IN  activity' = [heard EXCEPT
             !.pc = IF activity.pc = "awaiting" /\ FinishMatches(evt, activity.session)
                      THEN "signalled" ELSE @,
             !.last = evt,
             !.during = Active(activity.pc)]
  /\ UNCHANGED <<sessions, walk, hist, gate, task, jobs, cancels, fin, project>>

\* single-shot: SessionPrompt.prompt settles; unsub() follows a response,
\* a rejection leaves execute
ActivitySettle ==
  /\ activity.pc = "prompting"
  /\ \E ok \in BOOLEAN :
       activity' = IF ok THEN [activity EXCEPT !.pc = "collecting", !.unsub = FALSE]
                         ELSE [activity EXCEPT !.pc = "failed"]
  /\ UNCHANGED <<sessions, walk, hist, gate, task, jobs, cancels, fin, project>>

\* persistent: execute continues after await finishTaskPromise with unsub()
ActivityResume ==
  /\ activity.pc = "signalled"
  /\ activity' = [activity EXCEPT !.pc = "collecting", !.unsub = FALSE]
  /\ UNCHANGED <<sessions, walk, hist, gate, task, jobs, cancels, fin, project>>

\* execute returns after Session.messages
ActivityReturn ==
  /\ activity.pc = "collecting"
  /\ activity' = [activity EXCEPT !.pc = "returned"]
  /\ UNCHANGED <<sessions, walk, hist, gate, task, jobs, cancels, fin, project>>

ActivityNext ==
  \/ ActivityStart \/ ActivityRun \/ ActivityPublish
  \/ ActivitySettle \/ ActivityResume \/ ActivityReturn
ActivitySpec == BusInit /\ [][ActivityNext]_vars

\* ------------------------------------------------------------------------
\* The tool part of a finish_task call, published at each of its statuses
\* ------------------------------------------------------------------------

\* type ToolStatus = "completed" | "error" | "pending" | "running"
ToolStatus == {"pending", "running", "completed", "error"}

\* the host publishes the tool part of a finish_task call of session c:
\* pending and running before execute has settled, then completed with the
\* metadata of its result, or error when execute threw
PublishStatusOf(statuses, calls) ==
  \E c \in BusSessions, st \in statuses, params \in calls,
     up \in BOOLEAN, rejects \in BOOLEAN :
    LET r == FinishTaskExecute(sessions, c, params, up, rejects)
        evt == IF st = "completed" THEN SignalEvent(c, r.metadata)
                                   ELSE PartEvent(c, 0, "tool", "finish_task", st)
        after == [j \in JobIds |-> OnEvent(jobs[j], evt)]
    IN  /\ st = "completed" => r.ok
        /\ st = "error" => ~r.ok
        /\ jobs' = after
        /\ fin' = [FinIdle EXCEPT
                     !.called = TRUE, !.sessionID = c, !.status = st,
                     !.started = {j \in JobIds : /\ ~jobs[j].single
                                                 /\ jobs[j].prompt # "none"
                                                 /\ jobs[j].pc = "awaiting"
                                                 /\ jobs[j].session = c},
                     !.waiting = {j \in JobIds : /\ jobs[j].promise = "pending"
                                                 /\ jobs[j].session = c},
                     !.resolved = {j \in JobIds : /\ jobs[j].promise = "pending"
                                                  /\ after[j].promise = "resolved"}]
        /\ UNCHANGED <<sessions, walk, hist, gate, task, cancels, project, activity>>

PublishStatus == PublishStatusOf(ToolStatus, SignalParams)

\* The prompts of the children are left running, and no caller is
\* cancelled: neither touches the filter of the listener.
StatusNext ==
  \/ JobStart \/ JobRun \/ PublishStatus \/ JobResume \/ JobReturn
StatusSpec == BusInit /\ [][StatusNext]_vars

\* ------------------------------------------------------------------------
\* Completion signals published at any time of a persistent dispatch
\* ------------------------------------------------------------------------

\* the parts of finish_task calls while the tool runs and when it has
\* completed; what a call submits is of no account here
ObservedCalls ==
  {[status |-> "completed", summary |-> <<"o", "k">>, learnings |-> NoLearnings]}
PublishObserved == PublishStatusOf({"running", "completed"}, ObservedCalls)

\* The continuation of an await on a settled promise runs, and
\* Session.messages resolves; nothing obliges a child to call finish_task.
ObserveNext ==
  \/ JobStart \/ JobRun \/ PublishObserved \/ Abort \/ JobResume \/ JobReturn
ObserveSpec ==
  /\ BusInit /\ [][ObserveNext]_vars
  /\ WF_vars(JobResume) /\ WF_vars(JobReturn)

\* ------------------------------------------------------------------------
\* Dispatches under every singleShot configuration of the role
\* ------------------------------------------------------------------------

\* execute up to the local calculateDepth for a registered role whose
\* configuration entry gives single_shot or leaves it out
TaskStartConfigured ==
  /\ task.pc \in {"idle", "returned", "failed"}
  /\ \E caller \in Ids, subagentType \in RoleNames,
        single_shot \in SingleShotOverrides :
       /\ sessions[caller].exists
       /\ task' = [TaskIdle EXCEPT
            !.pc = "depth", !.caller = caller, !.role = subagentType,
            !.currentID = caller,
            !.agentConfig = ConfiguredSingleShot(subagentType, single_shot),
            !.had = SessionCount(sessions)]
  /\ UNCHANGED <<sessions, walk, hist, gate, jobs, cancels, fin, project, activity>>

ModeNext ==
  \/ TaskStartConfigured \/ TaskDepthStep \/ TaskSession \/ TaskMessage
  \/ TaskRun \/ TaskPromptDone \/ TaskSignal
ModeSpec == DispatchInit /\ [][ModeNext]_vars

\* ------------------------------------------------------------------------
\* Concurrent writes of the project state
\* ------------------------------------------------------------------------

\* write(projectRoot, state) up to the await of Lock.write: getStateFile
\* and fs.mkdir
WriteBegin ==
  \E w \in WriterIds, state \in WriterPartials :
    /\ project.writers[w].pc = "idle"
    /\ project' = [project EXCEPT
         !.writers[w] = [WriterIdle EXCEPT !.pc = "locking", !.state = state,
                                           !.waited = ~LockFree(project.lock)]]
    /\ UNCHANGED <<sessions, walk, hist, gate, task, jobs, cancels, fin, activity>>

\* using _ = await Lock.write(stateFile)
WriteLock ==
  \E w \in WriterIds :
    /\ project.writers[w].pc = "locking"
    /\ LockFree(project.lock)
    /\ project' = [project EXCEPT !.lock = w, !.writers[w].pc = "locked"]
    /\ UNCHANGED <<sessions, walk, hist, gate, task, jobs, cancels, fin, activity>>

\* const existing = (await file.exists()) ? parse(await file.json())
\*                                        : parse({}), the lock still held
WriteReadExistingUnlocks ==
  \E w \in WriterIds :
    /\ project.writers[w].pc = "locked"
    /\ project' = [project EXCEPT
         !.lock = NoHolder,
         !.writers[w].pc = "read",
         !.writers[w].existing = StorageRead(project.file)]
    /\ UNCHANGED <<sessions, walk, hist, gate, task, jobs, cancels, fin, activity>>
WriteReadExisting ==
  \E w \in WriterIds :
    /\ project.writers[w].pc = "locked"
    /\ project' = [project EXCEPT
         !.writers[w].pc = "read",
         !.writers[w].existing = StorageRead(project.file)]
    /\ UNCHANGED <<sessions, walk, hist, gate, task, jobs, cancels, fin, activity>>

\* const updated = {...}; await Bun.write(stateFile, JSON.stringify(updated))
WriteStore ==
  \E w \in WriterIds :
    LET updated == Updated(project.writers[w].existing,
                           project.writers[w].state, project.now + 1)
    IN  /\ project.writers[w].pc = "read"
        /\ project' = [project EXCEPT
             !.now = @ + 1,
             !.file = File(Stored(updated)),
             !.writers[w].pc = "written"]
        /\ UNCHANGED <<sessions, walk, hist, gate, task, jobs, cancels, fin, activity>>

\* return updated: the scope of using ends and the lock is released
WriteReturn ==
  \E w \in WriterIds :
    /\ project.writers[w].pc = "written"
    /\ project' = [project EXCEPT
         !.lock = IF @ = w THEN NoHolder ELSE @,
         !.writers[w].pc = "done"]
    /\ UNCHANGED <<sessions, walk, hist, gate, task, jobs, cancels, fin, activity>>

WritersNext ==
  \/ WriteBegin \/ WriteLock \/ WriteReadExisting \/ WriteStore \/ WriteReturn
WritersSpec == ProjectInit /\ [][WritersNext]_vars

Returned == walk.status = "returned"

\* ------------------------------------------------------------------------
\* Properties of the Depth Resolver
\* ------------------------------------------------------------------------

\* C1: when every lookup succeeds and the ancestry chain of the session
\* reaches a session without ancestry link in N hops, N below MAX_DEPTH,
\* calculateDepth returns exactly N (0 for a root session).
C1_ExactDepth ==
  (Returned /\ ~hist.failed) =>
    LET sh == hist.shape
    IN  (sh.kind = "root" /\ sh.tail < MAX_DEPTH) => walk.depth = sh.tail

C1_Witness ==
  /\ Returned /\ ~hist.failed
  /\ hist.shape.kind = "root"
  /\ hist.shape.tail >= 3
  /\ hist.shape.tail < MAX_DEPTH
  /\ walk.depth = hist.shape.tail

\* C2 (as stated): when a cycle of k sessions is reachable from the start
\* session, calculateDepth returns a value of at most k.
C2_Original ==
  Returned =>
    LET sh == hist.shape
    IN  sh.kind = "cycle" => walk.depth <= sh.k

\* C2 (amended): when a cycle of k sessions is reachable from the start
\* session after t hops, calculateDepth terminates and returns a value of
\* at most t + k (at most k when the start session is on the cycle).
C2_CycleBound ==
  /\ [](Returned =>
         LET sh == hist.shape
         IN  sh.kind = "cycle" => walk.depth <= sh.tail + sh.k)
  /\ ((walk.status = "loop" /\ hist.shape.kind = "cycle")
        ~> Returned)

C2_Witness ==
  /\ Returned /\ ~hist.failed
  /\ hist.shape.kind = "cycle"
  /\ hist.shape.tail >= 1
  /\ walk.depth = hist.shape.tail + hist.shape.k

\* C3: when a Session.get fails during the walk (session not found or
\* store error), the walk has stopped and returned the number of hops
\* completed before that lookup; calculateDepth never throws.
C3_LookupFailure ==
  /\ walk.status # "threw"
  /\ hist.failed => (Returned /\ walk.depth = hist.lookups - 1)

C3_Witness ==
  hist.failed /\ Returned /\ walk.depth >= 2 /\ walk.depth = hist.lookups - 1

\* C4: while sessions are created and ancestry links are changed between
\* the lookups of a walk, every calculateDepth call terminates and returns
\* an integer in 0..MAX_DEPTH.
C4_ConcurrentBound ==
  /\ [](walk.status # "threw")
  /\ [](Returned => (walk.depth >= 0 /\ walk.depth <= MAX_DEPTH))
  /\ ((walk.status = "loop") ~> Returned)

C4_Witness ==
  Returned /\ hist.mutated >= 1 /\ walk.depth >= 2 /\ walk.depth < MAX_DEPTH

\* ------------------------------------------------------------------------
\* Properties of the Ancestry Visibility Gate
\* ------------------------------------------------------------------------

GateDone == gate.pc = "done"

\* the gated read was of a session whose chain reaches a root, and no
\* lookup of the depth walk failed
GateReadAtDepth(n) ==
  /\ GateDone /\ gate.req # None /\ gate.raw.hasData
  /\ ~hist.failed
  /\ hist.shape.kind = "root" /\ hist.shape.tail = n

\* C8: a gated read of a session at depth 0 or 1 returns no parentID
\* whatever the store holds; a gated read of a session at depth 2 or more
\* returns the stored parentID.
C8_GatePolicy ==
  \A n \in 0..NumIds :
    GateReadAtDepth(n) =>
      IF n <= 1 THEN gate.out.parentID = None
      ELSE gate.out.parentID = sessions[gate.req].parentID /\ gate.out.parentID # None

C8_Witness ==
  /\ GateReadAtDepth(1)
  /\ sessions[gate.req].parentID # None
  /\ gate.out.parentID = None

\* C9 (as stated): when a session lookup of the depth walk failed, or the
\* depth computation threw, the gate returns the underlying result
\* unmodified, its parentID still present.
C9_FailOpen ==
  (GateDone /\ (hist.failed \/ walk.status = "threw")) => gate.out = gate.raw

\* C10: a gated read changes no field of the result other than parentID;
\* without a session id in the request, or without parentID in the
\* underlying result, it returns the underlying result; every member of the
\* client other than session.get is the original member.
C10_GateFrame ==
  /\ GateDone =>
       /\ gate.out.hasData = gate.raw.hasData
       /\ gate.out.id = gate.raw.id
       /\ gate.out.agentID = gate.raw.agentID
       /\ gate.out.error = gate.raw.error
       /\ gate.raw = ClientGet(sessions, gate.req)
       /\ (gate.req = None \/ ~gate.raw.hasData \/ gate.raw.parentID = None)
            => gate.out = gate.raw
  /\ (gate.pc = "member" /\ gate.asked # <<"session", "get">>)
       => gate.member = gate.asked

C10_Witness ==
  /\ GateDone
  /\ gate.raw.parentID # None /\ gate.out.parentID = None
  /\ gate.out.agentID = "orchestrator" /\ gate.out.id = gate.req

\* ------------------------------------------------------------------------
\* Properties of the Task Dispatcher
\* ------------------------------------------------------------------------

\* the dispatch has computed its child depth
DepthComputed == task.pc \in {"session", "message", "run", "prompting", "awaiting", "returned"}
                   \/ (task.pc = "failed" /\ task.error = "NotAssistant")

\* C5: the child depth is 1 for caller depth 0 and the orchestrator role,
\* 2 for caller depth 0 and any other role, caller depth + 1 for caller
\* depth 1 or more.
C5_ChildDepthRule ==
  DepthComputed =>
    /\ (task.currentDepth = 0 /\ task.role = "orchestrator") => task.childDepth = 1
    /\ (task.currentDepth = 0 /\ task.role # "orchestrator") => task.childDepth = 2
    /\ task.currentDepth >= 1 => task.childDepth = task.currentDepth + 1

C5_Witness ==
  /\ DepthComputed /\ task.created
  /\ task.currentDepth = 0 /\ task.role = "investigator" /\ task.childDepth = 2

\* C6: a dispatch whose child depth is 2 or more runs single-shot and never
\* waits for a completion signal, whatever singleShot the role has.
C6_DeepIsSingleShot ==
  (task.childDepth >= 2 /\ task.pc \in {"run", "prompting", "awaiting", "returned"}) =>
    /\ task.pc # "awaiting"
    /\ task.mode # "persistent"
    /\ task.pc \in {"prompting", "returned"} => task.mode = "single"

C6_Witness ==
  /\ task.pc = "prompting" /\ task.mode = "single"
  /\ task.childDepth >= 2
  /\ AgentGet(task.role).singleShot = "false"

\* C7 (as stated): every session at depth 1 has the orchestrator role, and
\* every session created for another role is at depth 2 or more.
C7_OnlyOrchestratorAtDepth1 ==
  \A i \in 1..MaxSessions :
    sessions[i].exists =>
      /\ ChainDepth(sessions, i) = 1 => sessions[i].agentID = "orchestrator"
      /\ sessions[i].agentID \in RoleNames \ {"orchestrator"} => ChainDepth(sessions, i) >= 2

\* ------------------------------------------------------------------------
\* Properties of the Completion Signal tool
\* ------------------------------------------------------------------------

\* C11 (as stated): finish_task fails with NoCurrentSession when the
\* invoking session cannot be resolved and with NotAChildSession when it
\* has no ancestry link, and a failed call produces no completion result.
C11_SignalErrors ==
  fin.called =>
    /\ ~fin.found =>
         ~fin.result.ok /\ fin.result.error = "NoCurrentSession"
    /\ (fin.found /\ sessions[fin.sessionID].parentID = None) =>
         ~fin.result.ok /\ fin.result.error = "NotAChildSession"
    /\ ~fin.result.ok => fin.result.metadata = NoMetadata

\* C12: a successful finish_task call is made from a session with an
\* ancestry link and returns metadata whose child is the invoking session,
\* whose parent is that session's ancestry link, and whose status, summary
\* and learnings are the submitted ones.
C12_SignalMetadata ==
  (fin.called /\ fin.result.ok) =>
    /\ sessions[fin.sessionID].exists
    /\ sessions[fin.sessionID].parentID # None
    /\ fin.result.metadata.childSessionID = fin.sessionID
    /\ fin.result.metadata.parentSessionID = sessions[fin.sessionID].parentID
    /\ fin.result.metadata.status = fin.params.status
    /\ fin.result.metadata.summary = fin.params.summary
    /\ fin.result.metadata.learnings = fin.params.learnings

C12_Witness ==
  /\ fin.called /\ fin.result.ok
  /\ fin.result.metadata.childSessionID # fin.result.metadata.parentSessionID
  /\ fin.params.status = "failed"
  /\ fin.params.summary # <<>>
  /\ fin.params.learnings.given /\ Len(fin.params.learnings.list) = 2

\* ------------------------------------------------------------------------
\* Properties of the dispatches over the event bus
\* ------------------------------------------------------------------------

\* the value a wait was resolved with is the submitted one
Verbatim(job) ==
  /\ job.value.status = job.by.metadata.status
  /\ job.value.summary = job.by.metadata.summary
  /\ job.value.learnings = job.by.metadata.learnings

\* C13 (as stated): a completion signal of a valid child session, published
\* while waits for that child are pending, resolves exactly one of them,
\* with the submitted status, summary and learnings.
C13_ExactlyOneWait ==
  (fin.called /\ fin.waiting # {}) =>
    /\ Cardinality(fin.resolved) = 1
    /\ \A j \in fin.resolved : Verbatim(jobs[j])

\* C14: a persistent dispatch is past its wait (collecting its result, or
\* returned) only when a completed finish_task part of its child session
\* resolved the wait; the settling of the child's prompt does not end it.
C14_ReturnsOnlyAfterSignal ==
  \A j \in JobIds :
    (~jobs[j].single /\ jobs[j].pc \in {"collecting", "returned"}) =>
      /\ jobs[j].promise = "resolved"
      /\ jobs[j].by.type = "tool"
      /\ jobs[j].by.tool = "finish_task"
      /\ jobs[j].by.status = "completed"
      /\ jobs[j].by.sessionID = jobs[j].session

C14_Witness ==
  \E j \in JobIds :
    /\ jobs[j].pc = "returned" /\ ~jobs[j].single
    /\ jobs[j].prompt = "rejected"

\* C15: a pending wait becomes resolved only in a step that publishes a
\* completed finish_task part of the wait's own child session; no other
\* event, of that session or of another, resolves it.
C15_OnlyMatchingSignalResolves ==
  [][\A j \in JobIds :
       (jobs[j].promise = "pending" /\ jobs'[j].promise = "resolved") =>
         /\ fin'.count = fin.count + 1
         /\ jobs'[j].by.sessionID = jobs[j].session
         /\ jobs'[j].by.tool = "finish_task"
         /\ jobs'[j].by.metadata.childSessionID = jobs[j].session]_vars

C15_Witness ==
  \E j \in JobIds, k \in JobIds :
    /\ jobs[j].session # jobs[k].session
    /\ jobs[j].promise = "resolved" /\ jobs[j].pc = "awaiting"
    /\ jobs[k].promise = "pending" /\ jobs[k].pc = "awaiting"
    /\ fin.called /\ fin.resolved = {j}

\* the text the output of a dispatch opens with for each status
ExpectedTag ==
  [completed |-> <<"[", "C", "O", "M", "P", "L", "E", "T", "E", "D", "] ">>,
   failed    |-> <<"[", "F", "A", "I", "L", "E", "D", "] ">>,
   cancelled |-> <<"[", "C", "A", "N", "C", "E", "L", "L", "E", "D", "] ">>]

\* the trailer block of a child session
ExpectedTrailer(id) ==
  <<"<task_metadata>", "\n", "session_id: ">> \o IdText(id)
  \o <<"\n", "</task_metadata>">>

\* the learnings, one "- " line each, in the order given
RECURSIVE Bullets(_)
Bullets(list) ==
  IF Len(list) = 0 THEN <<>>
  ELSE <<"- ">> \o Head(list)
       \o (IF Len(list) > 1 THEN <<"\n">> ELSE <<>>) \o Bullets(Tail(list))

\* C16: the output of a persistent dispatch resolved by a signal begins
\* with "[" + the status in upper case + "] " + the summary, then lists
\* each learning in submitted order when there are any, and ends with the
\* trailer block of the child session; the metadata carries the same child.
C16_PersistentOutput ==
  \A j \in JobIds :
    (jobs[j].pc = "returned" /\ ~jobs[j].single) =>
      LET sig  == jobs[j].by.metadata
          head == ExpectedTag[sig.status] \o sig.summary
          tail == <<"\n\n">> \o ExpectedTrailer(jobs[j].session)
          out  == jobs[j].output
          mid  == SubSeq(out, Len(head) + 1, Len(out) - Len(tail))
      IN  /\ IsPrefix(head, out)
          /\ IsSuffix(tail, out)
          /\ Len(out) >= Len(head) + Len(tail)
          /\ mid = IF sig.learnings.given /\ Len(sig.learnings.list) > 0
                     THEN <<"\n\nLearnings:\n">> \o Bullets(sig.learnings.list)
                     ELSE <<>>
          /\ jobs[j].sessionId = jobs[j].session

C16_Witness ==
  \E j \in JobIds :
    /\ jobs[j].pc = "returned" /\ ~jobs[j].single
    /\ jobs[j].by.metadata.status = "failed"
    /\ Len(jobs[j].by.metadata.learnings.list) = 2
    /\ IsPrefix(<<"[", "F", "A", "I", "L", "E", "D", "] ", "\n\nLearnings:\n",
                  "- ", "b", "\n", "- ", "a", "\n\n", "<task_metadata>">>,
                jobs[j].output)

\* C17: a single-shot dispatch returns the last text part of the child's
\* response (the empty text when it has none) followed by the trailer block
\* of the child session, and metadata carrying the same child.
C17_SingleShotOutput ==
  \A j \in JobIds :
    (jobs[j].pc = "returned" /\ jobs[j].single) =>
      LET parts == jobs[j].response
          texts == {i \in DOMAIN parts : parts[i].type = "text"}
          tail  == <<"\n\n">> \o ExpectedTrailer(jobs[j].session)
      IN  /\ texts = {} => jobs[j].output = tail
          /\ \A i \in texts :
               (\A k \in texts : k <= i) => jobs[j].output = parts[i].text \o tail
          /\ jobs[j].sessionId = jobs[j].session
          /\ jobs[j].prompt = "resolved"

C17_Witness ==
  \E j \in JobIds :
    /\ jobs[j].pc = "returned" /\ jobs[j].single
    /\ Len(jobs[j].response) = 4
    /\ IsPrefix(<<"b", "\n\n", "<task_metadata>">>, jobs[j].output)

\* C18: after a single-shot dispatch has returned, neither of the event
\* bus subscriptions of the dispatcher is registered for it.
C18_SingleShotNoSubscription ==
  \A j \in JobIds :
    (jobs[j].pc = "returned" /\ jobs[j].single) =>
      ~jobs[j].unsub /\ ~jobs[j].finishUnsub

C18_Witness ==
  \E j \in JobIds, k \in JobIds :
    /\ jobs[j].pc = "returned" /\ jobs[j].single /\ ~jobs[j].unsub
    /\ jobs[k].pc = "awaiting" /\ jobs[k].unsub /\ jobs[k].finishUnsub

\* the dispatch has settled: execute returned or threw
Settled(job) == job.pc \in {"returned", "failed"}

\* C19 (as stated): when the cancellation fires while a persistent dispatch
\* waits and no completion signal has resolved the wait, the dispatch
\* rejects with TaskAborted and leaves no event bus subscription registered.
C19_AbortedWaitCleansUp ==
  \A j \in JobIds :
    (jobs[j].abortedAt = "awaiting" /\ jobs[j].abortedPending /\ Settled(jobs[j])) =>
      /\ jobs[j].pc = "failed"
      /\ jobs[j].error = "TaskAborted"
      /\ ~jobs[j].unsub
      /\ ~jobs[j].finishUnsub

\* C20 (as stated): when the cancellation fires while the child's prompt is
\* running, the dispatcher calls SessionPrompt.cancel for the child and the
\* dispatch ends as a failure, in either mode.
C20_AbortEndsInFailure ==
  \A j \in JobIds :
    (jobs[j].abortedRunning /\ Settled(jobs[j])) =>
      /\ jobs[j].cancelled
      /\ jobs[j].session \in cancels
      /\ jobs[j].pc = "failed"

\* ------------------------------------------------------------------------
\* Properties of cancellation, cleanup and session handling
\* ------------------------------------------------------------------------

\* C21 (as stated): a persistent dispatch whose caller was cancelled before
\* the cancellation listeners were attached ends as a failure; it does not
\* stay waiting for a completion signal.
C21_EarlyAbortFails ==
  \A j \in JobIds :
    (jobs[j].abortedAt = "start" /\ ~jobs[j].single)
      ~> (jobs[j].pc = "failed")

\* C22 (as stated): once a dispatch has settled, on any exit path, neither
\* of its event bus subscriptions and neither of its listeners on the
\* caller's cancellation signal is still registered.
C22_CleanupOnEveryExit ==
  \A j \in JobIds :
    Settled(jobs[j]) =>
      /\ ~jobs[j].unsub
      /\ ~jobs[j].finishUnsub
      /\ ~jobs[j].cancelListener
      /\ ~jobs[j].abortListener

\* C23 (as stated): a dispatch naming a role that is not in the registry
\* fails with UnknownAgent, and has then created no session, registered no
\* subscription and started no execution: it failed in its first step, which
\* left the session store as it was.
C23_UnknownAgent ==
  /\ [](task.role \notin RoleNames /\ task.pc # "idle" =>
          /\ task.pc = "failed" /\ task.error = "UnknownAgent"
          /\ task.session = None /\ ~task.created /\ task.mode = "none")
  /\ [][task'.role \notin RoleNames /\ task' # task => sessions' = sessions]_vars

\* C24: the step that settles the session of a dispatch either reuses the
\* supplied session, when the lookup of params.session_id resolved, and
\* leaves the store as it was, or, when none was supplied or the lookup
\* failed, adds exactly one session, whose ancestry link is the caller and
\* whose role is the target role, and uses it.
C24_SessionReuseOrCreate ==
  [][(task.pc = "session" /\ task'.pc = "message") =>
       /\ task'.session_id = None => ~task'.found
       /\ task'.found => sessions[task'.session_id].exists
       /\ IF task'.found
            THEN /\ task'.session = task'.session_id
                 /\ sessions' = sessions
            ELSE LET n == task'.session
                 IN  /\ n \in Ids
                     /\ ~sessions[n].exists
                     /\ sessions'[n].exists
                     /\ sessions'[n].parentID = task.caller
                     /\ sessions'[n].agentID = task.role
                     /\ \A i \in Ids \ {n} : sessions'[i] = sessions[i]]_vars

\* a dispatch reused a supplied session that another caller had created
C24_Witness ==
  /\ task.pc = "message"
  /\ task.found /\ task.session = task.session_id /\ ~task.created
  /\ sessions[task.session].parentID \notin {None, task.caller}

\* C25: a wait that a completion signal has resolved stays resolved with
\* the value and the event of that signal, its listener is no longer
\* registered, and the result a dispatch has returned does not change;
\* later completed finish_task parts of the same child change none of it.
C25_ResolvedAtMostOnce ==
  [][\A j \in JobIds :
       /\ jobs[j].promise = "resolved" =>
            /\ ~jobs[j].finishUnsub
            /\ jobs'[j].promise = "resolved"
            /\ jobs'[j].value = jobs[j].value
            /\ jobs'[j].by = jobs[j].by
            /\ ~jobs'[j].finishUnsub
       /\ (jobs[j].pc = "returned" /\ ~jobs[j].single) =>
            jobs'[j].output = jobs[j].output]_vars

\* a second finish_task call of the same child, with another status, was
\* published after the wait had been resolved by the first
C25_Witness ==
  \E j \in JobIds :
    /\ jobs[j].promise = "resolved"
    /\ fin.count = MaxSignals + MaxLater
    /\ fin.result.ok /\ fin.sessionID = jobs[j].session
    /\ fin.waiting = {}
    /\ fin.params.status # jobs[j].value.status

\* ------------------------------------------------------------------------
\* Frame of the Depth Resolver
\* ------------------------------------------------------------------------

\* C26: every step of a calculateDepth call (its start, each loop iteration
\* and its return) leaves the session store as it was: the same sessions
\* and the same ancestry links, also while other dispatches change the store
\* between its steps.
C26_ResolverReadsOnly ==
  [][walk' # walk => sessions' = sessions]_vars

\* a call returned after finding a cycle, and the sessions it visited still
\* have their ancestry links
C26_Witness ==
  /\ Returned
  /\ walk.currentID \in walk.visited
  /\ Cardinality(walk.visited) >= 2
  /\ \A i \in walk.visited : sessions[i].exists /\ sessions[i].parentID # None

\* ------------------------------------------------------------------------
\* Properties of the project state
\* ------------------------------------------------------------------------

Fields == {"objectives", "decisions", "learnings", "todos"}
ToolCalls == {"project_state_read", "project_state_write"}

\* the list a state file holds for a field, the empty list when the file or
\* the field is missing
StoredList(file, f) ==
  IF file.exists /\ file.data[f].given THEN file.data[f].list ELSE <<>>

\* C27: a project_state_read or project_state_write call succeeds only
\* from a session that resolves and has no ancestry link; from a session
\* with an ancestry link, or one that does not resolve, it fails with the
\* PM-only error and the state file is as it was.
C27_PMOnly ==
  LET c == project.call
  IN  c.op \in ToolCalls =>
        /\ c.ok => /\ c.resolved
                   /\ sessions[c.sessionID].exists
                   /\ sessions[c.sessionID].parentID = None
        /\ (~c.resolved \/ sessions[c.sessionID].parentID # None) =>
             /\ ~c.ok
             /\ c.error = "PMOnly"
             /\ project.file = c.before

\* the orchestrator session tried to replace the objectives of a stored
\* state
C27_Witness ==
  /\ project.call.op = "project_state_write"
  /\ project.call.resolved /\ sessions[project.call.sessionID].parentID # None
  /\ project.call.state.objectives.given
  /\ project.call.before.exists
  /\ ~project.call.ok

\* C28: a write stores and returns a state in which each provided field
\* has the provided list, each field not provided has the list that was
\* stored (the empty list when nothing was), and lastUpdated is the time
\* of the write.
C28_WriteMerges ==
  LET c == project.call
  IN  (c.op \in {"write", "project_state_write"} /\ c.ok) =>
        /\ \A f \in Fields :
             /\ c.result[f] = IF c.state[f].given THEN c.state[f].list
                              ELSE StoredList(c.before, f)
             /\ project.file.data[f].given
             /\ project.file.data[f].list = c.result[f]
        /\ project.file.exists
        /\ c.result.lastUpdated = project.now
        /\ c.result.lastUpdated # 0
        /\ project.file.data.lastUpdated = c.result.lastUpdated

\* a write that empties the stored objectives and provides nothing else
C28_Witness ==
  /\ project.call.op = "write" /\ project.call.ok
  /\ project.call.state.objectives = Given(<<>>)
  /\ ~project.call.state.decisions.given
  /\ ~project.call.state.learnings.given
  /\ ~project.call.state.todos.given
  /\ project.call.before.data.objectives = Given(<<"a">>)
  /\ project.call.before.data.learnings = Given(<<"b", "a">>)
  /\ project.call.result.learnings = <<"b", "a">>

\* C29: a read made when no state file exists returns the four lists empty
\* and no lastUpdated, and there is still no state file afterwards.
C29_ReadDefaults ==
  LET c == project.call
  IN  (c.op \in {"read", "project_state_read"} /\ c.ok /\ ~c.before.exists) =>
        /\ \A f \in Fields : c.result[f] = <<>>
        /\ c.result.lastUpdated = 0
        /\ ~project.file.exists
        /\ project.file = c.before

C29_Witness ==
  /\ project.call.op = "read" /\ project.call.ok
  /\ ~project.call.before.exists
  /\ project.calls = 1

\* ------------------------------------------------------------------------
\* The depth the dispatcher computes and the Depth Resolver
\* ------------------------------------------------------------------------

\* C30 (as stated): for the same session and store the local walk of the
\* dispatcher ends, and ends with the depth the Depth Resolver returns: it
\* never counts more hops than the resolver returned, and what it returns
\* is the resolver's value.
C30_SameDepth ==
  walk.status = "returned" =>
    /\ task.pc = "depth" => task.depth <= walk.depth
    /\ task.pc = "session" => task.currentDepth = walk.depth

\* ------------------------------------------------------------------------
\* Properties of the dispatcher and the gate together
\* ------------------------------------------------------------------------

\* the dispatch in progress created its session from a caller without
\* parentID, for a role other than the orchestrator, with childDepth 2
SkippedChild ==
  /\ task.created
  /\ sessions[task.caller].parentID = None
  /\ task.currentDepth = 0
  /\ task.role # "orchestrator"
  /\ task.childDepth = 2

\* C31: a gated read of a session that a dispatch from a depth-0 caller
\* created for a non-orchestrator role (childDepth 2) returns the stored
\* parentID of that session, not an absent one.
C31_SkippedChildKeepsLink ==
  (SkippedChild /\ GateDone /\ gate.req = task.session) =>
    /\ gate.out.parentID = sessions[task.session].parentID
    /\ gate.out.parentID # None

\* ------------------------------------------------------------------------
\* Properties of the activity summary
\* ------------------------------------------------------------------------

\* the last event delivered was a tool part of the child session, and the
\* dispatch was in progress
HeardChildTool ==
  /\ activity.during
  /\ activity.last.type = "tool"
  /\ activity.last.sessionID = activity.session

C33_NotAssistantFailsEarly ==
  task.error = "NotAssistant" =>
    /\ task.pc = "failed"
    /\ ~task.unsub
    /\ ~task.prompted
    /\ task.mode = "none"
    /\ SessionCount(sessions) = task.had + (IF task.created THEN 1 ELSE 0)
    /\ task.created =>
         /\ sessions[task.session] = Info(task.caller, AgentGet(task.role).name)
         /\ task.session > task.had

\* the failure after the dispatch created its child session
C33_Witness ==
  /\ task.error = "NotAssistant"
  /\ task.created
  /\ SessionCount(sessions) = task.had + 1

\* ------------------------------------------------------------------------
\* Properties of the wait: the status of the finish_task part
\* ------------------------------------------------------------------------

\* C34: a finish_task tool part of the child session published with status
\* pending, running or error leaves every wait pending for that child
\* pending; a wait is resolved only by a part whose status is completed.
C34_OnlyCompletedResolves ==
  fin.called =>
    /\ fin.status # "completed" =>
         /\ fin.resolved = {}
         /\ \A j \in fin.waiting : jobs[j].promise = "pending"
    /\ \A j \in JobIds :
         jobs[j].promise = "resolved" => jobs[j].by.status = "completed"

\* a finish_task call of the awaited child ended in error and its part
\* left the wait pending
C34_Witness ==
  /\ fin.called
  /\ fin.status = "error"
  /\ fin.waiting # {}
  /\ \A j \in fin.waiting : jobs[j].promise = "pending" /\ jobs[j].pc = "awaiting"

\* ------------------------------------------------------------------------
\* Properties of the wait: signals published after the child was started
\* ------------------------------------------------------------------------

\* C35 (as stated): a completed finish_task part of the child, published at
\* any time after the child of a persistent dispatch in progress was
\* started, is followed by the return of that dispatch.
C35_SignalAfterStartReturns ==
  \A j \in JobIds :
    (fin.status = "completed" /\ j \in fin.started)
      ~> (jobs[j].pc = "returned")

\* C35 (amended): once the child of a persistent dispatch is started, a
\* pending wait has its finish_task listener registered; a completed
\* finish_task part of the child published while the wait is pending, that
\* is before the caller's cancellation rejected it, is followed by the
\* return of the dispatch.
C35_SignalWhilePendingReturns ==
  /\ [](\A j \in JobIds :
          (~jobs[j].single /\ jobs[j].prompt # "none"
             /\ jobs[j].promise = "pending") => jobs[j].finishUnsub)
  /\ \A j \in JobIds :
       (fin.status = "completed" /\ j \in fin.started /\ j \in fin.waiting)
         ~> (jobs[j].pc = "returned")

\* a persistent dispatch returned after the signal its wait was pending for
C35_Witness ==
  \E j \in JobIds :
    /\ fin.status = "completed"
    /\ j \in fin.started /\ j \in fin.waiting /\ j \in fin.resolved
    /\ jobs[j].pc = "returned"

\* ------------------------------------------------------------------------
\* Properties of the dispatcher: the mode of a dispatch
\* ------------------------------------------------------------------------

\* the dispatch has entered its mode
ModeEntered == task.mode # "none"

\* C36: a dispatch is in persistent mode only if the caller depth it
\* computed is 0, the role asked for is the orchestrator and the singleShot
\* of that role is false; a role other than the orchestrator whose
\* configuration sets singleShot false runs single-shot at every depth.
C36_PersistentOnlyIf ==
  /\ task.mode = "persistent" =>
       /\ task.currentDepth = 0
       /\ task.role = "orchestrator"
       /\ task.agentConfig = "false"
  /\ (ModeEntered /\ task.role # "orchestrator" /\ task.agentConfig = "false") =>
       task.mode = "single"

\* a role added by the configuration with singleShot false, dispatched from
\* a caller of depth 0, runs single-shot
C36_Witness ==
  /\ task.mode = "single"
  /\ task.role = "custom"
  /\ task.agentConfig = "false"
  /\ task.currentDepth = 0

\* ------------------------------------------------------------------------
\* Properties of the dispatcher: the permissions of the child session
\* ------------------------------------------------------------------------

\* the list the child was created with has a rule denying the permission
Denies(permission) ==
  \E i \in 1..Len(task.permission) :
    task.permission[i] = Rule(permission, "deny")

\* the role asked for has no rule whose permission is task
NoTaskRule ==
  \A i \in 1..Len(AgentGet(task.role).rules) :
    AgentGet(task.role).rules[i].permission # "task"

GivenFields(w) == {f \in Fields : project.writers[w].state[f].given}

\* every write call has returned, and no two of them provided a same field
AllWritten ==
  /\ \A w \in WriterIds : project.writers[w].pc = "done"
  /\ \A v, w \in WriterIds : v # w => GivenFields(v) \cap GivenFields(w) = {}

\* C38: when concurrent write calls on one project that provide different
\* fields have all returned, the state file holds the list each of them
\* provided, and at no time do two of them hold the write lock.
C38_BothWritesTakeEffect ==
  /\ AllWritten =>
       \A w \in WriterIds : \A f \in GivenFields(w) :
         /\ project.file.exists
         /\ project.file.data[f] = project.writers[w].state[f]
  /\ Cardinality({w \in WriterIds :
        project.writers[w].pc \in {"locked", "read", "written"}}) <= 1

\* two writes of different fields, one begun while the other held the lock
C38_Witness ==
  /\ AllWritten
  /\ \E w \in WriterIds : project.writers[w].waited
  /\ \A w \in WriterIds : \A f \in GivenFields(w) :
       StoredList(project.file, f) = project.writers[w].state[f].list

====
